---------------------------- MODULE Spec2Model ----------------------------
(***************************************************************************)
(* A model of the retrieval and graph-expansion engine of BioGraphRAG.     *)
(*                                                                         *)
(*   SpecLocal    the local graph backend: load_local_graph and           *)
(*                expand_subgraph (src/src/retrieval/expand_local.py) and  *)
(*                the Streamlit variant expand_graph_from_seeds            *)
(*                (src/app.py).                                            *)
(*   SpecRateSeq  one caller issuing requests through one                  *)
(*                BiomedicalDataFetcher (src/src/retrieval/                *)
(*                realtime_apis.py, _rate_limit).                          *)
(*   SpecRate     two concurrent callers, sharing a fetcher or building    *)
(*                one each as expand_subgraph_realtime does.               *)
(*   SpecLoadSeq  load_local_graph called again and again by one caller.   *)
(*   SpecLoad     load_local_graph called by two threads at once.          *)
(*   SpecGate     the callers of SpecRate and the request functions of     *)
(*                the standalone backend (src/backend/simple_app.py).      *)
(*   SpecRealtime expand_subgraph_realtime (src/src/retrieval/              *)
(*                expand_realtime.py) over the same responses.             *)
(*   SpecVector   upsert_vectors and query_vectors on the FAISS and the     *)
(*                OpenSearch backend (src/src/retrieval/vector_store.py),  *)
(*                query_local_vectors and search_similar_nodes.            *)
(*   SpecFaissRace  upsert_vectors and query_vectors on the FAISS files,   *)
(*                step by step.                                            *)
(*   SpecVs       load_local_vector_store and initialize_local_vector_store *)
(*                (src/src/retrieval/vector_store_local.py), step by step, *)
(*                by two threads; SpecVsFair adds that a thread which can  *)
(*                step does so.                                            *)
(*   SpecApp      search_similar_nodes and build_context_from_graph of the  *)
(*                Streamlit app (src/app.py).                              *)
(*   SpecFetch    the API methods of BiomedicalDataFetcher and             *)
(*                build_realtime_graph, over the responses the NCBI        *)
(*                endpoints may give.                                      *)
(***************************************************************************)
EXTENDS Integers, Sequences, FiniteSets, TLC

VARIABLES
    graphFile,      \* data/local/sample_graph.json: [exists, nodes, edges]
    GRAPH_CACHE,    \* expand_local._GRAPH_CACHE: <<>> (None) or <<G>>
    call,           \* the last call of the local backend and its arguments
    result,         \* what that call returned
    now,            \* time.time(), in clock ticks
    last_request_time,  \* BiomedicalDataFetcher.last_request_time, per fetcher
    pc,             \* where each caller stands in an API method
    fetcherOf,      \* the fetcher each caller goes through
    wake,           \* when each sleeping caller's time.sleep ends
    requestLog,     \* the times at which requests went out, in order
    apiCall,        \* the last call of a fetcher method, with the responses it got
    apiResult,      \* what that call returned, or the exception it raised
    loadPc,         \* where each thread stands in load_local_graph
    loadCfg,        \* the config_path of each thread's last call of it
    held,           \* the graph object a thread has built and not yet stored
    received,       \* what each thread's last finished call of it returned
    objects,        \* how many graph objects have been created
    fileReads,      \* how many times a graph file has been read and parsed
    graphId,        \* which object _GRAPH_CACHE refers to (0: None)
    faiss,          \* the files of the FAISS store: [exists, ids, vectors, meta]
    opensearch,     \* the documents of the OpenSearch index, by _id
    vecCall,        \* the last call of a vector store function
    vecResult,      \* what that call returned, from either backend
    appCall,        \* the last call of a function of src/app.py
    appResult,      \* what that call returned, or the exception it raised
    saver,          \* the caller inside upsert_vectors' _faiss_save, and what it writes
    loader,         \* the caller inside query_vectors' _faiss_load_or_init, and what it read
    localFiles,     \* the index and metadata files of the local vector store
    INDEX_CACHE,    \* vector_store_local._INDEX_CACHE: None or an index
    METADATA_CACHE, \* vector_store_local._METADATA_CACHE: None or a metadata list
    vs              \* where each thread stands in the local vector store's functions

localVars == <<graphFile, GRAPH_CACHE, call, result>>

rateVars == <<now, last_request_time, pc, fetcherOf, wake, requestLog>>

fetchVars == <<apiCall, apiResult>>

loadVars == <<loadPc, loadCfg, held, received, objects, fileReads, graphId>>

storeVars == <<faiss, opensearch, vecCall, vecResult>>

appVars == <<appCall, appResult>>

stepVars == <<saver, loader, localFiles, INDEX_CACHE, METADATA_CACHE, vs>>

vars == <<graphFile, GRAPH_CACHE, call, result,
          now, last_request_time, pc, fetcherOf, wake, requestLog,
          apiCall, apiResult,
          loadPc, loadCfg, held, received, objects, fileReads, graphId,
          faiss, opensearch, vecCall, vecResult, appCall, appResult,
          saver, loader, localFiles, INDEX_CACHE, METADATA_CACHE, vs>>

(***************************************************************************)
(* Bounds of the model.                                                    *)
(***************************************************************************)
MaxEdges == 2
MaxHops == 2
MaxDegree == 2
MaxTime == 8
MaxRequests == 3
MaxItems == 2
MaxLoads == 3
MaxVectors == 2

(***************************************************************************)
(* Helpers on sequences and sets.                                          *)
(***************************************************************************)
ToSet(s) == {s[i] : i \in 1..Len(s)}

Max2(a, b) == IF a >= b THEN a ELSE b

Min2(a, b) == IF a <= b THEN a ELSE b

SeqsUpTo(S, n) == UNION {[1..k -> S] : k \in 0..n}

RECURSIVE Pow(_, _)
Pow(b, e) == IF e <= 0 THEN 1 ELSE b * Pow(b, e - 1)

RECURSIVE SumPow(_, _)
\* sum over i in 0..n of b^i
SumPow(b, n) == IF n < 0 THEN 0 ELSE Pow(b, n) + SumPow(b, n - 1)

\* The slice without its cap.
SliceToUncapped(s, d) == s

\* Python's s[:d]: the first d elements, or all but the last -d when d < 0.
SliceTo(s, d) ==
    LET k == IF d >= 0 THEN Min2(d, Len(s)) ELSE Max2(0, Len(s) + d)
    IN  SubSeq(s, 1, k)

(***************************************************************************)
(* The sample graph file.                                                  *)
(***************************************************************************)
NodeIds == {"EGFR", "ColonCancer", "KRAS"}

IdOrder == <<"EGFR", "ColonCancer", "KRAS">>

Relations == {"ASSOCIATED_WITH"}

\* Edges between two of the ids, and one edge from an id to itself.
EdgeRecords ==
    {e \in [source : NodeIds, target : NodeIds, relation : Relations] :
        e.source # e.target \/ e.source = "EGFR"}

\* Node records carry unique ids (one record per id, in file order).
\* The ids are interchangeable and the edge lists range over all of them, so
\* the recorded ids are taken to be a prefix of IdOrder.
NodeLists == {SubSeq(IdOrder, 1, k) : k \in 0..Len(IdOrder)}

EdgeLists == SeqsUpTo(EdgeRecords, MaxEdges)

GraphFiles ==
    {[exists |-> TRUE, nodes |-> ns, edges |-> es] : ns \in NodeLists, es \in EdgeLists}
        \cup {[exists |-> FALSE, nodes |-> <<>>, edges |-> <<>>]}

(***************************************************************************)
(* networkx.DiGraph as used by the loader: nodes in insertion order, one   *)
(* edge per (source, target) pair in insertion order, a repeated pair      *)
(* overwriting the attributes of the edge already there.                   *)
(***************************************************************************)
\* The cache holds no graph (None) or one graph: <<>> or <<G>>.
NoGraph == <<>>

EmptyDiGraph == [nodes |-> <<>>, edges |-> <<>>]

add_node(G, n) ==
    IF n \in ToSet(G.nodes) THEN G ELSE [G EXCEPT !.nodes = Append(@, n)]

HasEdge(G, u, v) == \E i \in 1..Len(G.edges) : G.edges[i].source = u /\ G.edges[i].target = v

add_edge(G, e) ==
    LET G1 == add_node(add_node(G, e.source), e.target)
    IN  IF HasEdge(G1, e.source, e.target)
        THEN [G1 EXCEPT !.edges =
                [i \in 1..Len(G1.edges) |->
                    IF G1.edges[i].source = e.source /\ G1.edges[i].target = e.target
                    THEN e ELSE G1.edges[i]]]
        ELSE [G1 EXCEPT !.edges = Append(@, e)]

RECURSIVE AddNodes(_, _)
AddNodes(G, ns) == IF ns = <<>> THEN G ELSE AddNodes(add_node(G, Head(ns)), Tail(ns))

RECURSIVE AddEdges(_, _)
AddEdges(G, es) == IF es = <<>> THEN G ELSE AddEdges(add_edge(G, Head(es)), Tail(es))

successors(G, n) ==
    LET es == SelectSeq(G.edges, LAMBDA e : e.source = n)
    IN  [i \in 1..Len(es) |-> es[i].target]

predecessors(G, n) ==
    LET es == SelectSeq(G.edges, LAMBDA e : e.target = n)
    IN  [i \in 1..Len(es) |-> es[i].source]

\* A subgraph view that keeps every requested id, in the graph or not.
subgraphKeepsAll(G, S) ==
    [nodes |-> SelectSeq(IdOrder, LAMBDA n : n \in S),
     edges |-> SelectSeq(G.edges, LAMBDA e : e.source \in S /\ e.target \in S)]

\* G.subgraph(S): the nodes of G in S and the edges of G between them.
subgraph(G, S) ==
    [nodes |-> SelectSeq(G.nodes, LAMBDA n : n \in S),
     edges |-> SelectSeq(G.edges, LAMBDA e : e.source \in S /\ e.target \in S)]

(***************************************************************************)
(* load_local_graph: the graph built from the file, an empty graph when    *)
(* the file is missing.                                                    *)
(***************************************************************************)
ParseGraph(file) ==
    IF ~file.exists THEN EmptyDiGraph
    ELSE AddEdges(AddNodes(EmptyDiGraph, file.nodes), file.edges)

\* A repeat of the test that never finds the cache filled.
CacheHitNever(cache) == FALSE

\* if _GRAPH_CACHE is not None
CacheHit(cache) == cache # NoGraph

load_local_graph(cache, file) == IF CacheHit(cache) THEN cache[1] ELSE ParseGraph(file)

(***************************************************************************)
(* expand_subgraph.                                                        *)
(***************************************************************************)
\* One frontier round: the capped successors and predecessors of the layer.
NextLayer(G, layer, max_degree) ==
    UNION {ToSet(SliceTo(successors(G, n), max_degree))
             \cup ToSet(SliceTo(predecessors(G, n), max_degree)) :
           n \in layer \cap ToSet(G.nodes)}

\* The rounds with expanded_nodes overwritten by the new layer, not extended.
RECURSIVE ExpandLayersOverwrites(_, _, _, _, _)
ExpandLayersOverwrites(G, expanded_nodes, current_layer, rounds, max_degree) ==
    IF rounds <= 0 THEN expanded_nodes
    ELSE LET next_layer == NextLayer(G, current_layer, max_degree)
         IN  ExpandLayersOverwrites(G, next_layer, next_layer, rounds - 1, max_degree)

RECURSIVE ExpandLayers(_, _, _, _, _)
ExpandLayers(G, expanded_nodes, current_layer, rounds, max_degree) ==
    IF rounds <= 0 THEN expanded_nodes
    ELSE LET next_layer == NextLayer(G, current_layer, max_degree)
         IN  ExpandLayers(G, expanded_nodes \cup next_layer, next_layer,
                          rounds - 1, max_degree)

\* G.nodes[node_id] and G.edges[source, target] raise KeyError for a node or
\* an edge that G does not hold.
LookupFails(G, sub) ==
    \/ \E n \in ToSet(sub.nodes) : n \notin ToSet(G.nodes)
    \/ \E e \in ToSet(sub.edges) : ~HasEdge(G, e.source, e.target)

expand_subgraph(G, seed_ids, hops, max_degree) ==
    IF seed_ids = {} THEN [nodes |-> <<>>, rels |-> <<>>, raised |-> FALSE]
    ELSE LET expanded_nodes == ExpandLayers(G, seed_ids, seed_ids, hops, max_degree)
             sub == subgraph(G, expanded_nodes)
         IN  IF LookupFails(G, sub)
             THEN [nodes |-> <<>>, rels |-> <<>>, raised |-> TRUE]
             ELSE [nodes |-> sub.nodes, rels |-> sub.edges, raised |-> FALSE]

(***************************************************************************)
(* expand_graph_from_seeds (src/app.py), on the records of the file.       *)
(***************************************************************************)
load_graph_data(file) ==
    IF ~file.exists THEN [nodes |-> <<>>, edges |-> <<>>]
    ELSE [nodes |-> file.nodes, edges |-> file.edges]

NewNodes(edges, expanded_node_ids) ==
    {edges[i].target : i \in {j \in 1..Len(edges) : edges[j].source \in expanded_node_ids}}
        \cup
    {edges[i].source : i \in {j \in 1..Len(edges) : edges[j].target \in expanded_node_ids}}

\* The hop loop run once more than asked.
RECURSIVE ExpandIdsExtraRound(_, _, _)
ExpandIdsExtraRound(edges, expanded_node_ids, rounds) ==
    IF rounds < 0 THEN expanded_node_ids
    ELSE ExpandIdsExtraRound(edges, expanded_node_ids \cup NewNodes(edges, expanded_node_ids),
                             rounds - 1)

RECURSIVE ExpandIds(_, _, _)
ExpandIds(edges, expanded_node_ids, rounds) ==
    IF rounds <= 0 THEN expanded_node_ids
    ELSE ExpandIds(edges, expanded_node_ids \cup NewNodes(edges, expanded_node_ids),
                   rounds - 1)

expand_graph_from_seeds(seed_ids, graph_data, hops) ==
    LET expanded_node_ids == ExpandIds(graph_data.edges, seed_ids, hops)
    IN  [nodes |-> SelectSeq(graph_data.nodes, LAMBDA n : n \in expanded_node_ids),
         rels  |-> SelectSeq(graph_data.edges,
                             LAMBDA e : e.source \in expanded_node_ids
                                        /\ e.target \in expanded_node_ids),
         raised |-> FALSE]

(***************************************************************************)
(* The rate gate of BiomedicalDataFetcher.  Time is counted in clock ticks *)
(* of 0.17 s, so that min_request_interval (0.34 s) is two ticks.          *)
(***************************************************************************)
MinRequestInterval == 2

Threads == {"t1", "t2"}

\* A fetcher shared by its callers, and the fetcher each caller builds itself.
Fetchers == {"shared"} \cup Threads

\* time.time() is far from 0, the value __init__ gives last_request_time.
StartTime == MinRequestInterval

\* No thread is inside load_local_graph, and none has called it.
NoHeld == [G |-> [nodes |-> <<>>, edges |-> <<>>], id |-> 0]

NothingReceived == [id |-> 0, exc |-> "none"]

LoadIdle ==
    /\ loadPc = [t \in Threads |-> "idle"]
    /\ loadCfg = [t \in Threads |-> "configs/default.yaml"]
    /\ held = [t \in Threads |-> NoHeld]
    /\ received = [t \in Threads |-> NothingReceived]
    /\ objects = 0
    /\ fileReads = 0
    /\ graphId = 0

\* The FAISS files are not written yet, the OpenSearch index holds nothing,
\* and no vector store function has been called.
NoFaissFiles == [exists |-> FALSE, ids |-> <<>>, vectors |-> <<>>, meta |-> <<>>]

StoreIdle ==
    /\ faiss = NoFaissFiles
    /\ opensearch = <<>>
    /\ vecCall = [op |-> "none"]
    /\ vecResult = [faiss |-> <<>>, opensearch |-> <<>>]

\* No function of src/app.py has been called.
AppIdle ==
    /\ appCall = [op |-> "none"]
    /\ appResult = [value |-> <<>>, exc |-> "none"]

\* No caller is inside a step of the FAISS store or of the local vector
\* store, whose files are absent and whose caches are None.
EmptyStore == [ids |-> <<>>, vectors |-> <<>>, meta |-> <<>>]

RaceIdle ==
    /\ saver = [pc |-> "idle", store |-> EmptyStore]
    /\ loader = [pc |-> "idle", store |-> EmptyStore, outcome |-> "none", result |-> <<>>]

\* None, and a file that is absent.
NoneObj == [gen |-> 0, n |-> 0]

\* A thread that has called nothing.
IdleFrame ==
    [pc |-> "idle", fn |-> "none", nested |-> FALSE, depth |-> 0, index |-> NoneObj,
     metadata |-> NoneObj, exc |-> "none"]

CacheIdle ==
    /\ INDEX_CACHE = NoneObj
    /\ METADATA_CACHE = NoneObj
    /\ vs = [t \in Threads |-> IdleFrame]

StepIdle ==
    /\ RaceIdle
    /\ localFiles = [index |-> NoneObj, metadata |-> NoneObj]
    /\ CacheIdle

\* No fetcher method has been called.
NoApiCall == [op |-> "none"]

FetchIdle ==
    /\ apiCall = [op |-> "none"]
    /\ apiResult = [value |-> <<>>, exc |-> "none"]

RateIdle ==
    /\ now = StartTime
    /\ last_request_time = [f \in Fetchers |-> 0]
    /\ pc = [t \in Threads |-> "idle"]
    /\ fetcherOf = [t \in Threads |-> "shared"]
    /\ wake = [t \in Threads |-> 0]
    /\ requestLog = <<>>

LocalIdle ==
    /\ graphFile = [exists |-> FALSE, nodes |-> <<>>, edges |-> <<>>]
    /\ GRAPH_CACHE = <<>>
    /\ call = [op |-> "none", seed_ids |-> {}, hops |-> 0, max_degree |-> 0]
    /\ result = [nodes |-> <<>>, rels |-> <<>>, raised |-> FALSE]

InFlight == Cardinality({t \in Threads : pc[t] # "idle"})

\* The wait is skipped when it sleeps only for a negative remainder.
NeedsWaitNever(elapsed) == elapsed < 0

\* if elapsed < self.min_request_interval
NeedsWait(elapsed) == elapsed < MinRequestInterval

\* time.sleep(self.min_request_interval - elapsed)
SleepTime(elapsed) == MinRequestInterval - elapsed

\* A caller enters an API method of a fetcher it shares with other callers.
UseSharedFetcher(t) ==
    /\ pc[t] = "idle"
    /\ Len(requestLog) + InFlight < MaxRequests
    /\ fetcherOf' = [fetcherOf EXCEPT ![t] = "shared"]
    /\ pc' = [pc EXCEPT ![t] = "rate_limit"]
    /\ UNCHANGED <<now, last_request_time, wake, requestLog, localVars, fetchVars, loadVars,
                   storeVars, appVars, stepVars>>

\* expand_subgraph_realtime / query_realtime_vectors: the caller builds a
\* fetcher of its own (last_request_time = 0) and enters an API method of it.
NewFetcher(t) ==
    /\ pc[t] = "idle"
    /\ Len(requestLog) + InFlight < MaxRequests
    /\ fetcherOf' = [fetcherOf EXCEPT ![t] = t]
    /\ last_request_time' = [last_request_time EXCEPT ![t] = 0]
    /\ pc' = [pc EXCEPT ![t] = "rate_limit"]
    /\ UNCHANGED <<now, wake, requestLog, localVars, fetchVars, loadVars, storeVars, appVars,
                   stepVars>>

\* _rate_limit: read the clock and the last request time, start the sleep.
RateLimitRead(t) ==
    /\ pc[t] = "rate_limit"
    /\ LET elapsed == now - last_request_time[fetcherOf[t]]
       IN  IF NeedsWait(elapsed)
           THEN /\ wake' = [wake EXCEPT ![t] = now + SleepTime(elapsed)]
                /\ pc' = [pc EXCEPT ![t] = "sleeping"]
           ELSE /\ pc' = [pc EXCEPT ![t] = "stamp"]
                /\ UNCHANGED wake
    /\ UNCHANGED <<now, last_request_time, fetcherOf, requestLog, localVars, fetchVars, loadVars,
                   storeVars, appVars, stepVars>>

\* time.sleep returns, not before the time asked for.
RateLimitWake(t) ==
    /\ pc[t] = "sleeping"
    /\ now >= wake[t]
    /\ pc' = [pc EXCEPT ![t] = "stamp"]
    /\ UNCHANGED <<now, last_request_time, fetcherOf, wake, requestLog, localVars, fetchVars,
                   loadVars, storeVars, appVars, stepVars>>

\* self.last_request_time = time.time(), and the request goes out.
StampAndRequest(t) ==
    /\ pc[t] = "stamp"
    /\ last_request_time' = [last_request_time EXCEPT ![fetcherOf[t]] = now]
    /\ requestLog' = Append(requestLog, now)
    /\ pc' = [pc EXCEPT ![t] = "idle"]
    /\ UNCHANGED <<now, fetcherOf, wake, localVars, fetchVars, loadVars, storeVars, appVars,
                   stepVars>>

Tick ==
    /\ now < MaxTime
    /\ now' = now + 1
    /\ UNCHANGED <<last_request_time, pc, fetcherOf, wake, requestLog, localVars, fetchVars,
                   loadVars, storeVars, appVars, stepVars>>

InitRate == LocalIdle /\ RateIdle /\ FetchIdle /\ LoadIdle /\ StoreIdle /\ AppIdle /\ StepIdle

\* One caller, one fetcher.
NextRateSeq ==
    \/ UseSharedFetcher("t1")
    \/ RateLimitRead("t1")
    \/ RateLimitWake("t1")
    \/ StampAndRequest("t1")
    \/ Tick

SpecRateSeq == InitRate /\ [][NextRateSeq]_vars

NextRate ==
    \/ \E t \in Threads : UseSharedFetcher(t)
    \/ \E t \in Threads : NewFetcher(t)
    \/ \E t \in Threads : RateLimitRead(t)
    \/ \E t \in Threads : RateLimitWake(t)
    \/ \E t \in Threads : StampAndRequest(t)
    \/ Tick

SpecRate == InitRate /\ [][NextRate]_vars

(***************************************************************************)
(* The standalone backend (src/backend/simple_app.py) sends its requests   *)
(* with requests.get from module-level functions; there is no fetcher      *)
(* object and no _rate_limit in that file.                                 *)
(***************************************************************************)
\* search_pubmed: one request to PUBMED_SEARCH_URL.
AppSearchPubmed(t) ==
    /\ pc[t] = "idle"
    /\ Len(requestLog) + InFlight < MaxRequests
    /\ requestLog' = Append(requestLog, now)
    /\ UNCHANGED <<now, last_request_time, pc, fetcherOf, wake, localVars, fetchVars, loadVars,
                   storeVars, appVars, stepVars>>

\* fetch_pubmed_articles with a non-empty list: one request to PUBMED_FETCH_URL.
AppFetchPubmedArticles(t) ==
    /\ pc[t] = "idle"
    /\ Len(requestLog) + InFlight < MaxRequests
    /\ requestLog' = Append(requestLog, now)
    /\ UNCHANGED <<now, last_request_time, pc, fetcherOf, wake, localVars, fetchVars, loadVars,
                   storeVars, appVars, stepVars>>

\* search_genes: the request to NCBI_GENE_SEARCH; the function goes on to the
\* summary request when the search gave ids, and returns otherwise.
AppSearchGenes(t) ==
    /\ pc[t] = "idle"
    /\ Len(requestLog) + InFlight + 1 < MaxRequests
    /\ requestLog' = Append(requestLog, now)
    /\ \E has_ids \in BOOLEAN :
         pc' = [pc EXCEPT ![t] = IF has_ids THEN "gene_summary" ELSE "idle"]
    /\ UNCHANGED <<now, last_request_time, fetcherOf, wake, localVars, fetchVars, loadVars,
                   storeVars, appVars, stepVars>>

\* search_genes: the request to NCBI_GENE_SUMMARY.
AppGeneSummary(t) ==
    /\ pc[t] = "gene_summary"
    /\ requestLog' = Append(requestLog, now)
    /\ pc' = [pc EXCEPT ![t] = "idle"]
    /\ UNCHANGED <<now, last_request_time, fetcherOf, wake, localVars, fetchVars, loadVars,
                   storeVars, appVars, stepVars>>

\* The callers of the fetcher and the callers of the standalone backend.
NextGate ==
    \/ \E t \in Threads : UseSharedFetcher(t)
    \/ \E t \in Threads : NewFetcher(t)
    \/ \E t \in Threads : RateLimitRead(t)
    \/ \E t \in Threads : RateLimitWake(t)
    \/ \E t \in Threads : StampAndRequest(t)
    \/ \E t \in Threads : AppSearchPubmed(t)
    \/ \E t \in Threads : AppFetchPubmedArticles(t)
    \/ \E t \in Threads : AppSearchGenes(t)
    \/ \E t \in Threads : AppGeneSummary(t)
    \/ Tick

SpecGate == InitRate /\ [][NextGate]_vars

(***************************************************************************)
(* The API methods of BiomedicalDataFetcher.  A method's outcome is the    *)
(* list it returns, or the exception that leaves it.                       *)
(***************************************************************************)
\* How an HTTP exchange may end: a parsed payload, a timeout, a non-2xx
\* status, a body that does not parse, a body that parses to another shape.
HttpStatuses == {"ok", "timeout", "http_error", "malformed", "bad_shape"}

HttpFailures == HttpStatuses \ {"ok"}

\* The exception raised inside the try block (session.get, raise_for_status,
\* response.json / ET.fromstring, the walk over the payload).
RaisedBy(status) ==
    CASE status = "timeout"    -> "Timeout"
      [] status = "http_error" -> "HTTPError"
      [] status = "malformed"  -> "ParseError"
      [] status = "bad_shape"  -> "AttributeError"
      [] OTHER                 -> "none"

Returned(v) == [value |-> v, exc |-> "none"]

Raise(e) == [value |-> <<>>, exc |-> e]

\* A handler for the transport errors of requests only.
CaughtByRequestException(exc) == exc \in {"Timeout", "HTTPError"}

\* except Exception: every exception above is one.
CaughtByExcept(exc) ==
    exc \in {"Timeout", "HTTPError", "ParseError", "AttributeError", "TypeError"}

\* try: <body>  except Exception as exc: LOGGER.error(...); return []
TryExcept(body) ==
    IF body.exc # "none" /\ CaughtByExcept(body.exc) THEN Returned(<<>>) ELSE body

NoSymbol == ""

\* Python's None, and the two ways an XML element may fail to give a text:
\* find() returns None for an element that is not there, and .text is None
\* for an element that is there with no text before its first child.
None == "None (null)"

AbsentElement == "element absent"

EmptyElement == "element without text"

\* elem.text if elem is not None else default
ElementText(elem, default) ==
    IF elem = AbsentElement THEN default
    ELSE IF elem = EmptyElement THEN None
    ELSE elem

Node(id, type, symbol, pmid, title, abstract, text) ==
    [id |-> id, type |-> type, symbol |-> symbol, pmid |-> pmid,
     title |-> title, abstract |-> abstract, text |-> text]

\* One entry of the esummary result: its uid and, when present, its name.
GeneNode(entry) ==
    Node("GENE_" \o (IF entry.has_name THEN entry.name ELSE entry.uid), "Gene",
         IF entry.has_name THEN entry.name ELSE NoSymbol, "", "", "", {})

\* One PubmedArticle element: its PMID, when present, its title and abstract,
\* and the words the two hold.
PublicationNode(article) ==
    LET pmid == IF article.has_pmid THEN article.pmid ELSE "Unknown"
    IN  Node("PMID_" \o pmid, "Publication", NoSymbol, pmid,
             ElementText(article.title, "No title"),
             ElementText(article.abstract, "No abstract available"), article.text)

\* ",".join(ids) sits before the try block: it raises TypeError for ids that
\* are not strings.
fetch_gene_details(gene_ids, summary) ==
    IF ~gene_ids.are_str THEN Raise("TypeError")
    ELSE TryExcept(IF summary.status # "ok" THEN Raise(RaisedBy(summary.status))
                   ELSE Returned([i \in 1..Len(summary.result) |-> GeneNode(summary.result[i])]))

search_genes(search, summary) ==
    TryExcept(IF search.status # "ok" THEN Raise(RaisedBy(search.status))
              ELSE IF search.idlist = <<>> THEN Returned(<<>>)
              ELSE fetch_gene_details([ids |-> search.idlist, are_str |-> search.ids_are_str],
                                      summary))

fetch_publication_details(pmids, fetched) ==
    IF ~pmids.are_str THEN Raise("TypeError")
    ELSE TryExcept(IF fetched.status # "ok" THEN Raise(RaisedBy(fetched.status))
                   ELSE Returned([i \in 1..Len(fetched.articles) |->
                                PublicationNode(fetched.articles[i])]))

search_publications(search, fetched) ==
    TryExcept(IF search.status # "ok" THEN Raise(RaisedBy(search.status))
              ELSE IF search.idlist = <<>> THEN Returned(<<>>)
              ELSE fetch_publication_details([ids |-> search.idlist,
                                              are_str |-> search.ids_are_str], fetched))

(***************************************************************************)
(* The responses of the endpoints.                                         *)
(***************************************************************************)
\* Lists of distinct elements of S, at most n long.
DistinctSeqs(S, n) ==
    {q \in SeqsUpTo(S, n) : \A i, j \in 1..Len(q) : q[i] = q[j] => i = j}

IdLists == {<<>>, <<"1956">>, <<"1956", "3845">>}

\* esearch.fcgi: a status, and on success the idlist, of strings or not.
SearchResponses ==
    {[status |-> st, idlist |-> <<>>, ids_are_str |-> TRUE] : st \in HttpFailures}
        \cup {[status |-> "ok", idlist |-> ids, ids_are_str |-> b] :
                ids \in IdLists, b \in BOOLEAN}

\* Two records may carry one name: a gene and its ortholog in another organism.
GeneEntries ==
    {[uid |-> "1956", has_name |-> TRUE, name |-> "EGFR"],
     [uid |-> "13649", has_name |-> TRUE, name |-> "EGFR"],
     [uid |-> "4609", has_name |-> FALSE, name |-> ""]}

\* esummary.fcgi?db=gene
SummaryResponses ==
    {[status |-> st, result |-> <<>>] : st \in HttpFailures}
        \cup {[status |-> "ok", result |-> r] : r \in DistinctSeqs(GeneEntries, MaxItems)}

\* A complete article, one whose title opens with markup (no text of its
\* own), and one without PMID and title whose abstract opens with markup.
Articles ==
    {[has_pmid |-> TRUE, pmid |-> "101", title |-> "EGFR in cancer",
      abstract |-> "EGFR drives cancer", text |-> {"EGFR", "cancer"}],
     [has_pmid |-> TRUE, pmid |-> "102", title |-> EmptyElement,
      abstract |-> "a lung cancer cohort", text |-> {"lung cancer"}],
     [has_pmid |-> FALSE, pmid |-> "", title |-> AbsentElement,
      abstract |-> EmptyElement, text |-> {}]}

\* efetch.fcgi?db=pubmed
FetchResponses ==
    {[status |-> st, articles |-> <<>>] : st \in HttpFailures}
        \cup {[status |-> "ok", articles |-> a] : a \in DistinctSeqs(Articles, MaxItems)}

IdArguments == {[ids |-> ids, are_str |-> TRUE] : ids \in IdLists \ {<<>>}}

(***************************************************************************)
(* search_disease_gene_associations and build_realtime_graph.              *)
(***************************************************************************)
Edge(source, target, relation, pmid) ==
    [source |-> source, target |-> target, relation |-> relation, pmid |-> pmid]

RECURSIVE Flatten(_)
Flatten(ss) == IF ss = <<>> THEN <<>> ELSE Head(ss) \o Flatten(Tail(ss))

diseases ==
    <<[name |-> "cancer", id |-> "DISEASE_CANCER"],
      [name |-> "lung cancer", id |-> "DISEASE_LUNG_CANCER"],
      [name |-> "breast cancer", id |-> "DISEASE_BREAST_CANCER"],
      [name |-> "colon cancer", id |-> "DISEASE_COLON_CANCER"],
      [name |-> "diabetes", id |-> "DISEASE_DIABETES"],
      [name |-> "alzheimer", id |-> "DISEASE_ALZHEIMERS"],
      [name |-> "parkinson", id |-> "DISEASE_PARKINSONS"]>>

\* phrase in text, for a text given by the terms it is made of: the empty
\* string is in every text, "cancer" is in "lung cancer".
Contains(text, phrase) ==
    \/ phrase = ""
    \/ phrase \in text
    \/ phrase = "cancer" /\ text \cap {"lung cancer", "breast cancer", "colon cancer"} # {}

AssociationsOfPublication(gene_symbol, pub) ==
    LET matched == SelectSeq(diseases, LAMBDA d : Contains(pub.text, d.name))
    IN  [i \in 1..Len(matched) |->
            Edge("GENE_" \o gene_symbol, matched[i].id, "ASSOCIATED_WITH", pub.pmid)]

\* answer: the responses to the esearch and the efetch of the literature search.
search_disease_gene_associations(gene_symbol, answer) ==
    LET publications == search_publications(answer[1], answer[2])
    IN  IF publications.exc # "none" THEN publications
        ELSE Returned(Flatten([i \in 1..Len(publications.value) |->
                 AssociationsOfPublication(gene_symbol, publications.value[i])]))

gene_keywords == <<"EGFR", "TP53", "KRAS", "BRCA1", "BRCA2", "AKT1", "PIK3CA", "PTEN">>

\* A query is given by the gene keywords it contains.
MentionedIn(query) == SelectSeq(gene_keywords, LAMBDA g : g \in query)

HasNode(nodes, id) == \E i \in 1..Len(nodes) : nodes[i].id = id

RECURSIVE AddDiseaseNodes(_, _)
AddDiseaseNodes(nodes, edges) ==
    IF edges = <<>> THEN nodes
    ELSE AddDiseaseNodes(IF HasNode(nodes, Head(edges).target) THEN nodes
                         ELSE Append(nodes, Node(Head(edges).target, "Disease", NoSymbol,
                                                 "", "", "", {})),
                         Tail(edges))

\* associations[:5]: the edges kept, none of them dropped as a repeat.
AssociationEdges(associations) == SliceTo(associations, 5)

\* The loop over mentioned_genes[:3], one literature answer per pass.
RECURSIVE AssociationLoop(_, _, _)
AssociationLoop(symbols, answers, acc) ==
    IF symbols = <<>> THEN acc
    ELSE LET associations == search_disease_gene_associations(Head(symbols), Head(answers))
         IN  IF associations.exc # "none"
             THEN [acc EXCEPT !.exc = associations.exc]
             ELSE AssociationLoop(Tail(symbols), Tail(answers),
                     [nodes |-> AddDiseaseNodes(acc.nodes, AssociationEdges(associations.value)),
                      edges |-> acc.edges \o AssociationEdges(associations.value),
                      exc |-> "none"])

MentionsOfPublication(pub, mentioned_genes) ==
    LET matched == SelectSeq(mentioned_genes, LAMBDA g : Contains(pub.text, g))
    IN  [i \in 1..Len(matched) |->
            Edge(pub.id, "GENE_" \o matched[i], "MENTIONS", pub.pmid)]

FirstRaised(outcomes) ==
    IF \E i \in 1..Len(outcomes) : outcomes[i].exc # "none"
    THEN outcomes[CHOOSE i \in 1..Len(outcomes) :
                    /\ outcomes[i].exc # "none"
                    /\ \A j \in 1..(i - 1) : outcomes[j].exc = "none"].exc
    ELSE "none"

\* The number of gene searches a query leads to.
GeneSearches(query) ==
    IF MentionedIn(query) = <<>> THEN 1 ELSE Len(SliceTo(MentionedIn(query), 3))

GenesFound(query, geneAnswers) ==
    [i \in 1..GeneSearches(query) |-> search_genes(geneAnswers[i][1], geneAnswers[i][2])]

mentioned_genes(query, geneAnswers) ==
    IF MentionedIn(query) = <<>>
    THEN LET genes == GenesFound(query, geneAnswers)[1].value
         IN  [i \in 1..Len(genes) |-> genes[i].symbol]
    ELSE MentionedIn(query)

GeneNodes(query, geneAnswers) ==
    Flatten([i \in 1..GeneSearches(query) |-> GenesFound(query, geneAnswers)[i].value])

\* max_results of the publication search.
PublicationRetmax(query, max_nodes, geneAnswers) ==
    Min2(10, max_nodes - Len(GeneNodes(query, geneAnswers)))

build_realtime_graph(query, max_nodes, geneAnswers, pubAnswer, assocAnswers) ==
    LET found == GenesFound(query, geneAnswers)
        genes == mentioned_genes(query, geneAnswers)
        publications == search_publications(pubAnswer[1], pubAnswer[2])
        early == FirstRaised(Append(found, publications))
        linked == AssociationLoop(SliceTo(genes, 3), assocAnswers,
                     [nodes |-> GeneNodes(query, geneAnswers) \o publications.value,
                      edges |-> <<>>, exc |-> "none"])
        mentions == Flatten([i \in 1..Len(publications.value) |->
                        MentionsOfPublication(publications.value[i], genes)])
    IN  IF early # "none" THEN [nodes |-> <<>>, edges |-> <<>>, exc |-> early]
        ELSE IF linked.exc # "none" THEN [nodes |-> <<>>, edges |-> <<>>, exc |-> linked.exc]
        ELSE [nodes |-> linked.nodes, edges |-> linked.edges \o mentions, exc |-> "none"]

(***************************************************************************)
(* What the endpoints answer during build_realtime_graph: per search, the  *)
(* esearch response and the response to the detail request after it.       *)
(***************************************************************************)
Found(ids, details) ==
    <<[status |-> "ok", idlist |-> ids, ids_are_str |-> TRUE], details>>

Unavailable ==
    <<[status |-> "timeout", idlist |-> <<>>, ids_are_str |-> TRUE],
      [status |-> "timeout", result |-> <<>>, articles |-> <<>>]>>

\* esearch returns at most retmax ids; what it does with a negative retmax is
\* not ours to say.
Served(pool, retmax) ==
    DistinctSeqs(pool, IF retmax < 0 THEN MaxItems ELSE Min2(retmax, MaxItems))

\* A free-text gene search.
GenericGeneAnswers ==
    {Unavailable} \cup
    {Found([i \in 1..Len(r) |-> r[i].uid], [status |-> "ok", result |-> r]) :
        r \in Served(GeneEntries, 5)}

\* The search for one gene symbol, max_results = 1: nothing, or that gene.
SymbolGeneAnswers(g) ==
    {Unavailable,
     Found(<<"uid_" \o g>>,
           [status |-> "ok",
            result |-> <<[uid |-> "uid_" \o g, has_name |-> TRUE, name |-> g]>>])}

ArticleAnswers(pool, retmax) ==
    {Unavailable} \cup
    {Found([i \in 1..Len(a) |-> a[i].pmid], [status |-> "ok", articles |-> a]) :
        a \in Served(pool, retmax)}

\* The articles a search for a gene and disease[MeSH] may return.
DiseaseArticles == {a \in Articles : a.text # {}}

GeneAnswerLists(query) ==
    IF MentionedIn(query) = <<>> THEN {<<a>> : a \in GenericGeneAnswers}
    ELSE LET first3 == SliceTo(MentionedIn(query), 3)
         IN  {q \in [1..Len(first3) -> UNION {SymbolGeneAnswers(g) : g \in ToSet(first3)}] :
                \A i \in 1..Len(first3) : q[i] \in SymbolGeneAnswers(first3[i])}

Queries == {{}, {"EGFR"}, {"TP53", "EGFR"}, {"KRAS", "EGFR", "BRCA1", "TP53"}}

MaxNodesValues == {0, 2, 30}

(***************************************************************************)
(* query_realtime_vectors (src/src/retrieval/expand_realtime.py).  Scores  *)
(* are counted in hundredths.                                              *)
(***************************************************************************)
TopKValues == {1, 3, 10}

\* The genes NCBI holds for the question, best match first.
SeedGenePool ==
    <<[uid |-> "1956", has_name |-> TRUE, name |-> "EGFR"],
      [uid |-> "7157", has_name |-> TRUE, name |-> "TP53"],
      [uid |-> "3845", has_name |-> TRUE, name |-> "KRAS"],
      [uid |-> "672", has_name |-> TRUE, name |-> "BRCA1"],
      [uid |-> "675", has_name |-> TRUE, name |-> "BRCA2"]>>

\* The gene search of query_realtime_vectors, max_results = min(5, top_k):
\* no answer, or the first genes of the pool, up to max_results of them.
SeedGeneAnswers(top_k) ==
    {Unavailable} \cup
    {Found([i \in 1..n |-> SeedGenePool[i].uid],
           [status |-> "ok", result |-> SubSeq(SeedGenePool, 1, n)]) :
        n \in 0..Min2(5, top_k)}

\* The genes that search returns.
SeedGenes(geneAnswer) == search_genes(geneAnswer[1], geneAnswer[2]).value

\* max_results of the publication search after it.
SeedPublicationRetmax(top_k, geneAnswer) == Min2(top_k - Len(SeedGenes(geneAnswer)), 10)

\* The seed of a gene: score 1.0 - i * 0.1.  The model's gene entries carry
\* no summary, so the description is the default of gene.get.
GeneSeed(i, gene) ==
    [id |-> gene.id, score |-> 100 - (i - 1) * 10, type |-> "Gene", name |-> gene.symbol,
     description |-> ""]

\* The seed of a publication: score 0.8 - i * 0.05; the abstracts of the
\* model are shorter than the 500 characters the slice keeps.
PublicationSeed(i, pub) ==
    [id |-> pub.id, score |-> 80 - (i - 1) * 5, type |-> "Publication", name |-> pub.title,
     description |-> pub.abstract]

\* Slicing None raises TypeError, and nothing here catches it.
query_realtime_vectors(top_k, geneAnswer, pubAnswer) ==
    LET genes        == SeedGenes(geneAnswer)
        publications == search_publications(pubAnswer[1], pubAnswer[2]).value
        seeds        == [i \in 1..Len(genes) |-> GeneSeed(i, genes[i])]
                        \o [i \in 1..Len(publications) |-> PublicationSeed(i, publications[i])]
    IN  IF \E i \in 1..Len(publications) : publications[i].abstract = None
        THEN Raise("TypeError")
        ELSE Returned(SliceTo(seeds, top_k))

(***************************************************************************)
(* src/backend/simple_app.py: the standalone /api/qa handler, with its own *)
(* copies of the search functions.                                         *)
(***************************************************************************)
\* search_pubmed: the idlist, [] on any exception.
search_pubmed(search) ==
    TryExcept(IF search.status # "ok" THEN Raise(RaisedBy(search.status))
              ELSE Returned(search.idlist))

SimpleArticle(article) ==
    [pmid |-> IF article.has_pmid THEN article.pmid ELSE "Unknown",
     title |-> ElementText(article.title, "No title"),
     abstract |-> ElementText(article.abstract, "No abstract"),
     text |-> article.text]

\* fetch_pubmed_articles: the join and abstract[:500] are inside the try;
\* slicing None raises TypeError, and the except clause returns [].
fetch_pubmed_articles(pmids, fetched) ==
    IF pmids.ids = <<>> THEN Returned(<<>>)
    ELSE TryExcept(
        IF ~pmids.are_str THEN Raise("TypeError")
        ELSE IF fetched.status # "ok" THEN Raise(RaisedBy(fetched.status))
        ELSE IF \E i \in 1..Len(fetched.articles) :
                    ElementText(fetched.articles[i].abstract, "No abstract") = None
             THEN Raise("TypeError")
        ELSE Returned([i \in 1..Len(fetched.articles) |-> SimpleArticle(fetched.articles[i])]))

SimpleGene(entry) ==
    [id |-> "GENE_" \o (IF entry.has_name THEN entry.name ELSE entry.uid),
     symbol |-> IF entry.has_name THEN entry.name ELSE NoSymbol]

\* search_genes of simple_app: both requests in one try block.
simple_search_genes(search, summary) ==
    TryExcept(
        IF search.status # "ok" THEN Raise(RaisedBy(search.status))
        ELSE IF search.idlist = <<>> THEN Returned(<<>>)
        ELSE IF ~search.ids_are_str THEN Raise("TypeError")
        ELSE IF summary.status # "ok" THEN Raise(RaisedBy(summary.status))
        ELSE Returned([i \in 1..Len(summary.result) |-> SimpleGene(summary.result[i])]))

\* What the LLM endpoint does: no key configured, or an HTTP exchange.
GroqOutcomes == {"no_key"} \cup HttpStatuses

\* query_groq_llm returns a string in every case.
query_groq_llm(groq) ==
    IF groq = "no_key" THEN "Error: GROQ_API_KEY not configured"
    ELSE IF groq = "ok" THEN "answer"
    ELSE "Error querying LLM"

SimpleNode(id, type, name) == [id |-> id, type |-> type, name |-> name]

\* The MENTIONS edges of one article: symbol.lower() in title.lower() or ...
\* raises AttributeError for a title that is None.
ArticleMentions(article, genes) ==
    IF genes # <<>> /\ article.title = None THEN Raise("AttributeError")
    ELSE LET matched == SelectSeq(genes, LAMBDA g : Contains(article.text, g.symbol))
         IN  Returned([i \in 1..Len(matched) |->
                 Edge("PMID_" \o article.pmid, matched[i].id, "MENTIONS", article.pmid)])

\* except Exception as e: raise HTTPException(status_code=500, ...)
HandlerExcept(body) ==
    IF body.exc # "none" /\ CaughtByExcept(body.exc)
    THEN [nodes |-> <<>>, edges |-> <<>>, answer |-> "", exc |-> "HTTPException"]
    ELSE body

answer_question(blank, pubAnswer, geneAnswer, groq) ==
    IF blank THEN [nodes |-> <<>>, edges |-> <<>>, answer |-> "", exc |-> "HTTPException"]
    ELSE LET pmids == search_pubmed(pubAnswer[1]).value
             articles == fetch_pubmed_articles([ids |-> pmids,
                             are_str |-> pubAnswer[1].ids_are_str], pubAnswer[2]).value
             genes == simple_search_genes(geneAnswer[1], geneAnswer[2]).value
             mentions == [i \in 1..Len(articles) |-> ArticleMentions(articles[i], genes)]
         IN  HandlerExcept(
                 [nodes |-> [i \in 1..Len(genes) |->
                                SimpleNode(genes[i].id, "Gene", genes[i].symbol)]
                            \o [i \in 1..Len(articles) |->
                                SimpleNode("PMID_" \o articles[i].pmid, "Publication",
                                           articles[i].title)],
                  edges |-> Flatten([i \in 1..Len(articles) |-> mentions[i].value]),
                  answer |-> query_groq_llm(groq),
                  exc |-> FirstRaised(mentions)])

(***************************************************************************)
(* The fetcher as a state machine.                                         *)
(***************************************************************************)
SearchGenes ==
    /\ apiCall.op = "none"
    /\ \E search \in SearchResponses, summary \in SummaryResponses :
        /\ apiCall' = [op |-> "search_genes", first |-> search, second |-> summary]
        /\ apiResult' = search_genes(search, summary)
        /\ UNCHANGED <<localVars, rateVars, loadVars, storeVars, appVars, stepVars>>

FetchGeneDetails ==
    /\ apiCall.op = "none"
    /\ \E gene_ids \in IdArguments, summary \in SummaryResponses :
        /\ apiCall' = [op |-> "fetch_gene_details", first |-> gene_ids, second |-> summary]
        /\ apiResult' = fetch_gene_details(gene_ids, summary)
        /\ UNCHANGED <<localVars, rateVars, loadVars, storeVars, appVars, stepVars>>

SearchPublications ==
    /\ apiCall.op = "none"
    /\ \E search \in SearchResponses, fetched \in FetchResponses :
        /\ apiCall' = [op |-> "search_publications", first |-> search, second |-> fetched]
        /\ apiResult' = search_publications(search, fetched)
        /\ UNCHANGED <<localVars, rateVars, loadVars, storeVars, appVars, stepVars>>

FetchPublicationDetails ==
    /\ apiCall.op = "none"
    /\ \E pmids \in IdArguments, fetched \in FetchResponses :
        /\ apiCall' = [op |-> "fetch_publication_details", first |-> pmids, second |-> fetched]
        /\ apiResult' = fetch_publication_details(pmids, fetched)
        /\ UNCHANGED <<localVars, rateVars, loadVars, storeVars, appVars, stepVars>>

BuildRealtimeGraph ==
    /\ apiCall.op = "none"
    /\ \E query \in Queries, max_nodes \in MaxNodesValues :
      \E geneAnswers \in GeneAnswerLists(query) :
        \E pubAnswer \in ArticleAnswers(Articles,
                                        PublicationRetmax(query, max_nodes, geneAnswers)) :
          \E assocAnswers \in [1..Len(SliceTo(mentioned_genes(query, geneAnswers), 3))
                                 -> ArticleAnswers(DiseaseArticles, 10)] :
            /\ apiCall' = [op |-> "build_realtime_graph", query |-> query,
                           max_nodes |-> max_nodes, geneAnswers |-> geneAnswers,
                           pubAnswer |-> pubAnswer, assocAnswers |-> assocAnswers]
            /\ apiResult' = build_realtime_graph(query, max_nodes, geneAnswers,
                                                 pubAnswer, assocAnswers)
            /\ UNCHANGED <<localVars, rateVars, loadVars, storeVars, appVars, stepVars>>

\* POST /api/qa of simple_app.
AnswerQuestion ==
    /\ apiCall.op = "none"
    /\ \E blank \in BOOLEAN, pubAnswer \in ArticleAnswers(Articles, 10),
          geneAnswer \in GenericGeneAnswers, groq \in GroqOutcomes :
        /\ apiCall' = [op |-> "answer_question", blank |-> blank, pubAnswer |-> pubAnswer,
                       geneAnswer |-> geneAnswer, groq |-> groq]
        /\ apiResult' = answer_question(blank, pubAnswer, geneAnswer, groq)
        /\ UNCHANGED <<localVars, rateVars, loadVars, storeVars, appVars, stepVars>>

QueryRealtimeVectors ==
    /\ apiCall.op = "none"
    /\ \E top_k \in TopKValues :
      \E geneAnswer \in SeedGeneAnswers(top_k) :
        \E pubAnswer \in ArticleAnswers(Articles, SeedPublicationRetmax(top_k, geneAnswer)) :
            /\ apiCall' = [op |-> "query_realtime_vectors", top_k |-> top_k,
                           geneAnswer |-> geneAnswer, pubAnswer |-> pubAnswer]
            /\ apiResult' = query_realtime_vectors(top_k, geneAnswer, pubAnswer)
            /\ UNCHANGED <<localVars, rateVars, loadVars, storeVars, appVars, stepVars>>

\* The caller takes the returned value.
ReturnApi ==
    /\ apiCall.op # "none"
    /\ apiCall' = NoApiCall
    /\ apiResult' = Returned(<<>>)
    /\ UNCHANGED <<localVars, rateVars, loadVars, storeVars, appVars, stepVars>>

InitFetch == LocalIdle /\ RateIdle /\ FetchIdle /\ LoadIdle /\ StoreIdle /\ AppIdle /\ StepIdle

NextFetch ==
    \/ SearchGenes
    \/ FetchGeneDetails
    \/ SearchPublications
    \/ FetchPublicationDetails
    \/ BuildRealtimeGraph
    \/ AnswerQuestion
    \/ QueryRealtimeVectors
    \/ ReturnApi

SpecFetch == InitFetch /\ [][NextFetch]_vars

(***************************************************************************)
(* The local backend as a state machine.                                   *)
(***************************************************************************)
SeedSets == SUBSET NodeIds

HopValues == 0..MaxHops

DegreeValues == -1..MaxDegree

NoCall == [op |-> "none", seed_ids |-> {}, hops |-> 0, max_degree |-> 0]

NoResult == [nodes |-> <<>>, rels |-> <<>>, raised |-> FALSE]

InitLocal ==
    /\ graphFile \in GraphFiles
    /\ GRAPH_CACHE = NoGraph
    /\ call = NoCall
    /\ result = NoResult
    /\ RateIdle
    /\ FetchIdle
    /\ LoadIdle
    /\ StoreIdle
    /\ AppIdle
    /\ StepIdle

LoadLocalGraph ==
    /\ call.op = "none"
    /\ GRAPH_CACHE' = <<load_local_graph(GRAPH_CACHE, graphFile)>>
    /\ call' = [NoCall EXCEPT !.op = "load_local_graph"]
    /\ result' = NoResult
    /\ UNCHANGED <<graphFile, rateVars, fetchVars, loadVars, storeVars, appVars, stepVars>>

ExpandSubgraph ==
    \E seed_ids \in SeedSets, hops \in HopValues, max_degree \in DegreeValues :
        LET G == load_local_graph(GRAPH_CACHE, graphFile)
        IN  /\ call.op = "none"
            /\ GRAPH_CACHE' = <<G>>
            /\ call' = [op |-> "expand_subgraph", seed_ids |-> seed_ids,
                        hops |-> hops, max_degree |-> max_degree]
            /\ result' = expand_subgraph(G, seed_ids, hops, max_degree)
            /\ UNCHANGED <<graphFile, rateVars, fetchVars, loadVars, storeVars, appVars,
                           stepVars>>

\* src/app.py is a Streamlit program of its own: it never imports
\* expand_local, so _GRAPH_CACHE is unset in the process that runs it.
ExpandGraphFromSeeds ==
    \E seed_ids \in SeedSets, hops \in HopValues :
        /\ call.op = "none"
        /\ GRAPH_CACHE = NoGraph
        /\ call' = [op |-> "expand_graph_from_seeds", seed_ids |-> seed_ids,
                    hops |-> hops, max_degree |-> 0]
        /\ result' = expand_graph_from_seeds(seed_ids, load_graph_data(graphFile), hops)
        /\ UNCHANGED <<graphFile, GRAPH_CACHE, rateVars, fetchVars, loadVars, storeVars, appVars,
                       stepVars>>

\* The caller takes the returned value; the backend is ready for the next call.
ReturnLocal ==
    /\ call.op # "none"
    /\ call' = NoCall
    /\ result' = NoResult
    /\ UNCHANGED <<graphFile, GRAPH_CACHE, rateVars, fetchVars, loadVars, storeVars, appVars,
                   stepVars>>

NextLocal == LoadLocalGraph \/ ExpandSubgraph \/ ExpandGraphFromSeeds \/ ReturnLocal

SpecLocal == InitLocal /\ [][NextLocal]_vars

(***************************************************************************)
(* load_local_graph step by step: the test of the cache, load_config, the  *)
(* read of the graph file, the assignment to _GRAPH_CACHE.                 *)
(***************************************************************************)
DefaultGraphPath == "data/local/sample_graph.json"

\* The configuration files a caller may name: one naming the sample graph,
\* one naming another graph file, one without paths.sample_graph, and a
\* path where there is no file.
ConfigPaths ==
    {"configs/default.yaml", "configs/other.yaml", "configs/bare.yaml", "configs/missing.yaml"}

ConfigExists(config_path) == config_path # "configs/missing.yaml"

\* cfg.get("paths.sample_graph", "data/local/sample_graph.json")
SampleGraphPath(config_path) ==
    IF config_path = "configs/other.yaml" THEN "data/other_graph.json" ELSE DefaultGraphPath

OtherGraphFile == [exists |-> TRUE, nodes |-> <<"KRAS">>, edges |-> <<>>]

FileAt(path) == IF path = DefaultGraphPath THEN graphFile ELSE OtherGraphFile

\* Lines 40-41: the cached object is returned; otherwise the load begins.
LoadCall(t) ==
    /\ loadPc[t] = "idle"
    /\ \E config_path \in ConfigPaths :
        /\ loadCfg' = [loadCfg EXCEPT ![t] = config_path]
        /\ IF CacheHit(GRAPH_CACHE)
           THEN /\ received' = [received EXCEPT ![t] = [id |-> graphId, exc |-> "none"]]
                /\ UNCHANGED loadPc
           ELSE /\ loadPc' = [loadPc EXCEPT ![t] = "load_config"]
                /\ UNCHANGED received
    /\ UNCHANGED <<held, objects, fileReads, graphId, localVars, rateVars, fetchVars, storeVars,
                   appVars, stepVars>>

\* Line 43: load_config raises FileNotFoundError for a missing config file.
LoadConfig(t) ==
    /\ loadPc[t] = "load_config"
    /\ IF ConfigExists(loadCfg[t])
       THEN /\ loadPc' = [loadPc EXCEPT ![t] = "read"]
            /\ UNCHANGED received
       ELSE /\ loadPc' = [loadPc EXCEPT ![t] = "idle"]
            /\ received' = [received EXCEPT ![t] = [id |-> 0, exc |-> "FileNotFoundError"]]
    /\ UNCHANGED <<loadCfg, held, objects, fileReads, graphId, localVars, rateVars, fetchVars,
                   storeVars, appVars, stepVars>>

\* Lines 46-87: a missing graph file gives a new empty graph, cached and
\* returned at once; a file that is there is read and parsed into a new graph.
LoadRead(t) ==
    /\ loadPc[t] = "read"
    /\ objects < MaxLoads
    /\ objects' = objects + 1
    /\ LET file == FileAt(SampleGraphPath(loadCfg[t]))
       IN  IF ~file.exists
           THEN /\ GRAPH_CACHE' = <<EmptyDiGraph>>
                /\ graphId' = objects + 1
                /\ received' = [received EXCEPT ![t] = [id |-> objects + 1, exc |-> "none"]]
                /\ loadPc' = [loadPc EXCEPT ![t] = "idle"]
                /\ UNCHANGED <<held, fileReads>>
           ELSE /\ fileReads' = fileReads + 1
                /\ held' = [held EXCEPT ![t] = [G |-> ParseGraph(file), id |-> objects + 1]]
                /\ loadPc' = [loadPc EXCEPT ![t] = "store"]
                /\ UNCHANGED <<GRAPH_CACHE, graphId, received>>
    /\ UNCHANGED <<loadCfg, graphFile, call, result, rateVars, fetchVars, storeVars, appVars,
                   stepVars>>

\* Lines 90-91: _GRAPH_CACHE = G; return G.
LoadStore(t) ==
    /\ loadPc[t] = "store"
    /\ GRAPH_CACHE' = <<held[t].G>>
    /\ graphId' = held[t].id
    /\ received' = [received EXCEPT ![t] = [id |-> held[t].id, exc |-> "none"]]
    /\ held' = [held EXCEPT ![t] = NoHeld]
    /\ loadPc' = [loadPc EXCEPT ![t] = "idle"]
    /\ UNCHANGED <<loadCfg, objects, fileReads, graphFile, call, result, rateVars, fetchVars,
                   storeVars, appVars, stepVars>>

\* The race does not depend on the edges the file holds.
InitLoad ==
    /\ graphFile \in {f \in GraphFiles : f.edges = <<>>}
    /\ GRAPH_CACHE = NoGraph
    /\ call = NoCall
    /\ result = NoResult
    /\ RateIdle
    /\ FetchIdle
    /\ LoadIdle
    /\ StoreIdle
    /\ AppIdle
    /\ StepIdle

\* One caller.
NextLoadSeq ==
    \/ LoadCall("t1")
    \/ LoadConfig("t1")
    \/ LoadRead("t1")
    \/ LoadStore("t1")

SpecLoadSeq == InitLoad /\ [][NextLoadSeq]_vars

\* Two threads of one process.
NextLoad ==
    \E t \in Threads :
        \/ LoadCall(t)
        \/ LoadConfig(t)
        \/ LoadRead(t)
        \/ LoadStore(t)

SpecLoad == InitLoad /\ [][NextLoad]_vars

(***************************************************************************)
(* expand_subgraph_realtime (src/src/retrieval/expand_realtime.py).        *)
(***************************************************************************)
\* The empty string: a question that names no gene.
NoQuestion == {}

\* The last seed id as the question.
LastQuestionOf(seed_ids) == IF seed_ids # <<>> THEN seed_ids[Len(seed_ids)] ELSE NoQuestion

\* seed_ids[0] if seed_ids else ""
QuestionOf(seed_ids) == IF seed_ids # <<>> THEN seed_ids[1] ELSE NoQuestion

\* cfg.get("retrieval.prune_max_nodes", 40): one configuration sets it to 2.
PruneMaxNodes(config_path) == IF config_path = "configs/other.yaml" THEN 2 ELSE 40

\* node.get("name", node.get("title", node.get("symbol", ""))): the title of
\* a publication, the name of a disease, which is derived from its id, and
\* the name of a gene, for which its symbol stands here.
FormattedNode(node) ==
    [id |-> node.id, label |-> node.type,
     name |-> IF node.type = "Publication" THEN node.title
              ELSE IF node.type = "Disease" THEN node.id
              ELSE node.symbol,
     description |-> node.abstract]

FormattedEdge(edge) ==
    [id |-> <<edge.source, "__", edge.relation, "__", edge.target>>,
     from |-> edge.source, to |-> edge.target, label |-> edge.relation, pmid |-> edge.pmid]

expand_subgraph_realtime(config_path, seed_ids, hops, max_degree, genes, pubs, assocs) ==
    LET question == QuestionOf(seed_ids)
        graph    == build_realtime_graph(question, PruneMaxNodes(config_path), genes, pubs,
                                         assocs)
    IN  IF ~ConfigExists(config_path) THEN [nodes |-> <<>>, rels |-> <<>>,
                                            exc |-> "FileNotFoundError"]
        ELSE IF graph.exc # "none" THEN [nodes |-> <<>>, rels |-> <<>>, exc |-> graph.exc]
        ELSE [nodes |-> [i \in 1..Len(graph.nodes) |-> FormattedNode(graph.nodes[i])],
              rels  |-> [i \in 1..Len(graph.edges) |-> FormattedEdge(graph.edges[i])],
              exc   |-> "none"]

\* The seed ids a caller passes: none, one question, or a question followed
\* by another.
SeedIdLists ==
    {<<>>, <<{"EGFR"}>>, <<{"TP53", "EGFR"}>>, <<{"EGFR"}, {"TP53", "EGFR"}>>,
     <<{"TP53", "EGFR"}, {"EGFR"}>>}

RealtimeHops == {1, 2}

RealtimeDegrees == {1, 10}

\* The literature search for one gene's diseases: no answer, or the first
\* article on a disease.
AssociationAnswers ==
    {Unavailable} \cup
    {Found(<<a.pmid>>, [status |-> "ok", articles |-> <<a>>]) :
        a \in {b \in DiseaseArticles : b.pmid = "101"}}

ExpandSubgraphRealtime ==
    /\ apiCall.op = "none"
    /\ \E config_path \in {"configs/default.yaml", "configs/other.yaml", "configs/missing.yaml"},
          seed_ids \in SeedIdLists, hops \in RealtimeHops, max_degree \in RealtimeDegrees :
      LET question == QuestionOf(seed_ids)
          max_nodes == PruneMaxNodes(config_path)
      IN  \E geneAnswers \in GeneAnswerLists(question) :
            \E pubAnswer \in ArticleAnswers(Articles,
                                            PublicationRetmax(question, max_nodes, geneAnswers)) :
              \E assocAnswers \in [1..Len(SliceTo(mentioned_genes(question, geneAnswers), 3))
                                     -> AssociationAnswers] :
                /\ apiCall' = [op |-> "expand_subgraph_realtime", config_path |-> config_path,
                               seed_ids |-> seed_ids, hops |-> hops,
                               max_degree |-> max_degree, geneAnswers |-> geneAnswers,
                               pubAnswer |-> pubAnswer, assocAnswers |-> assocAnswers]
                /\ apiResult' = expand_subgraph_realtime(config_path, seed_ids, hops,
                                                         max_degree, geneAnswers, pubAnswer,
                                                         assocAnswers)
                /\ UNCHANGED <<localVars, rateVars, loadVars, storeVars, appVars, stepVars>>

NextRealtime ==
    \/ ExpandSubgraphRealtime
    \/ ReturnApi

SpecRealtime == InitFetch /\ [][NextRealtime]_vars

(***************************************************************************)
(* The vector stores (src/src/retrieval/vector_store.py,                   *)
(* vector_store_local.py) and the similarity search of src/app.py.         *)
(* Embeddings are vectors of two integer coordinates; a vector divided by  *)
(* its norm is kept in units of 1/Scale, an inner product of two such      *)
(* vectors in units of 1/Scale^2.  float32 rounding is not modelled.       *)
(***************************************************************************)
Scale == 10

Vectors == {<<1, 0>>, <<3, 4>>, <<0, 0>>}

Dot(a, b) == a[1] * b[1] + a[2] * b[2]

\* np.linalg.norm, exact on Vectors.
Norm(v) == CHOOSE r \in 0..Dot(v, v) : r * r <= Dot(v, v) /\ (r + 1) * (r + 1) > Dot(v, v)

\* The vector as it is, in units of 1/Scale.
NotNormalized(v) == <<Scale * v[1], Scale * v[2]>>

\* vec / (np.linalg.norm(vec) + 1e-12): the zero vector stays zero.
Normalized(v) ==
    IF Norm(v) = 0 THEN <<0, 0>>
    ELSE <<(Scale * v[1]) \div Norm(v), (Scale * v[2]) \div Norm(v)>>

\* The inner product of a vector with itself after normalisation.
MaxSimilarity == Scale * Scale

RECURSIVE ArgSortOf(_, _)
ArgSortOf(key, left) ==
    IF left = {} THEN <<>>
    ELSE LET first == CHOOSE i \in left :
                          \A j \in left : key[i] < key[j] \/ (key[i] = key[j] /\ i <= j)
         IN  <<first>> \o ArgSortOf(key, left \ {first})

\* np.argsort on a short array: the positions by ascending key, equal keys
\* in the order they stand.
ArgSort(key) == ArgSortOf(key, DOMAIN key)

Reverse(s) == [i \in 1..Len(s) |-> s[Len(s) + 1 - i]]

\* Python's x or y.
Or(x, y) == IF x \in {None, ""} THEN y ELSE x

\* str(x)
Str(x) == IF x = None THEN "None" ELSE x

\* doc_type.split("_")[0]
SplitFirst(doc_type) ==
    CASE doc_type = "primekg_gene" -> "primekg"
      [] OTHER -> doc_type

DocIds == {"GENE_EGFR", "GENE_KRAS"}

\* The type and namespace a document comes with; None: the key is missing.
DocKinds == {[type |-> "primekg_gene", namespace |-> None],
             [type |-> "Publication", namespace |-> "pubmedkg"]}

Docs == {[id |-> id, vector |-> v, type |-> kind.type, namespace |-> kind.namespace] :
            id \in DocIds, v \in Vectors, kind \in DocKinds}

\* retrieval.namespaces.include of the configuration.
NamespaceFilters == {<<>>, <<"pubmedkg">>}

TopKs == 1..(MaxVectors + 1)

\* index, ids and meta as read from the three files, or a new empty index
\* when one of them is missing.
faiss_load_or_init(files) ==
    IF files.exists THEN [ids |-> files.ids, vectors |-> files.vectors, meta |-> files.meta]
    ELSE [ids |-> <<>>, vectors |-> <<>>, meta |-> <<>>]

faiss_save(store) ==
    [exists |-> TRUE, ids |-> store.ids, vectors |-> store.vectors, meta |-> store.meta]

\* upsert_vectors, FAISS backend: the files after the call.
upsert_faiss(files, documents) ==
    LET store       == faiss_load_or_init(files)
        vectors     == [i \in 1..Len(documents) |-> Normalized(documents[i].vector)]
        new_ids     == [i \in 1..Len(documents) |-> documents[i].id]
        new_meta    == [i \in 1..Len(documents) |->
                           <<documents[i].type, Or(documents[i].namespace, "")>>]
    IN  IF vectors = <<>> THEN files
        ELSE faiss_save([ids     |-> store.ids \o new_ids,
                         vectors |-> store.vectors \o vectors,
                         meta    |-> store.meta \o new_meta])

\* The document upsert_vectors sends to OpenSearch.
OpenSearchDocument(doc) ==
    LET doc_type == Or(doc.type, "")
    IN  [id |-> doc.id, type |-> doc_type,
         namespace |-> Or(doc.namespace, SplitFirst(doc_type)), vector |-> doc.vector]

\* One index action of the bulk request: the document replaces the one
\* stored under the same _id.
BulkIndex(stored, document) ==
    SelectSeq(stored, LAMBDA d : d.id # document.id) \o <<document>>

RECURSIVE Bulk(_, _)
Bulk(stored, documents) ==
    IF documents = <<>> THEN stored
    ELSE Bulk(BulkIndex(stored, Head(documents)), Tail(documents))

\* upsert_vectors, OpenSearch backend: the index after the call.
upsert_opensearch(stored, documents) ==
    Bulk(stored, [i \in 1..Len(documents) |-> OpenSearchDocument(documents[i])])

\* index.search(q, k) of an IndexFlatIP: k rows of score and position by
\* descending inner product, an earlier entry first among equal scores,
\* position -1 in the rows that have no entry.
FaissSearch(vectors, q, k) ==
    LET score == [i \in 1..Len(vectors) |-> Dot(q, vectors[i])]
        order == ArgSort([i \in 1..Len(vectors) |-> 0 - score[i]])
    IN  [r \in 1..k |-> IF r <= Len(order) THEN [score |-> score[order[r]], idx |-> order[r]]
                        ELSE [score |-> 0, idx |-> -1]]

\* No filtering at all.
PassesAlways(namespaces, namespace) == TRUE

PassesFilter(namespaces, namespace) ==
    namespaces = <<>> \/ namespace \in ToSet(namespaces)

\* query_vectors, FAISS backend.
query_faiss(files, query_vector, top_k, namespaces) ==
    LET store == faiss_load_or_init(files)
        q     == Normalized(query_vector)
        rows  == FaissSearch(store.vectors, q, top_k)
        kept  == SelectSeq(rows, LAMBDA row :
                     /\ row.idx # -1
                     /\ PassesFilter(namespaces, Str(store.meta[row.idx][2])))
    IN  IF Len(store.vectors) = 0 THEN <<>>
        ELSE [i \in 1..Len(kept) |->
                 [id        |-> store.ids[kept[i].idx],
                  type      |-> Str(store.meta[kept[i].idx][1]),
                  namespace |-> Str(store.meta[kept[i].idx][2]),
                  score     |-> kept[i].score]]

\* The _score of the cosinesimil space: 1 / (2 - cosine), in units of
\* 1/Scale^2.
OpenSearchScore(cosine) == (MaxSimilarity * MaxSimilarity) \div (2 * MaxSimilarity - cosine)

\* query_vectors, OpenSearch backend: the top_k nearest documents, then the
\* namespace filter.
query_opensearch(stored, query_vector, top_k, namespaces) ==
    LET cosine == [i \in 1..Len(stored) |->
                      Dot(Normalized(query_vector), Normalized(stored[i].vector))]
        order  == SliceTo(ArgSort([i \in 1..Len(stored) |-> 0 - cosine[i]]), top_k)
        hits   == SelectSeq(order, LAMBDA i : PassesFilter(namespaces, stored[i].namespace))
    IN  [i \in 1..Len(hits) |->
            [id        |-> stored[hits[i]].id,
             type      |-> stored[hits[i]].type,
             namespace |-> stored[hits[i]].namespace,
             score     |-> OpenSearchScore(cosine[hits[i]])]]

\* The nodes the local index and the Streamlit app embed, in file order.
EmbeddedNodes == <<"GENE_EGFR", "GENE_KRAS", "DISEASE_NSCLC", "DRUG_ERLOTINIB">>

\* The squared distance an IndexFlatL2 reports.
L2(a, b) == Dot(<<a[1] - b[1], a[2] - b[2]>>, <<a[1] - b[1], a[2] - b[2]>>)

\* query_local_vectors on the index and metadata load_local_vector_store
\* returned: a result's score is its distance to the query.
query_local_vectors(index, metadata, query_vector, top_k) ==
    LET distance == [i \in 1..Len(index) |-> L2(query_vector, index[i])]
        indices  == SliceTo(ArgSort(distance), Min2(top_k, Len(index)))
        kept     == SelectSeq(indices, LAMBDA idx : idx <= Len(metadata))
    IN  IF Len(index) = 0 THEN <<>>
        ELSE [i \in 1..Len(kept) |-> [id |-> metadata[kept[i]], score |-> distance[kept[i]]]]

\* search_similar_nodes: cosine_similarity refuses an array of no rows.
search_similar_nodes(query_embedding, nodes, embeddings, top_k) ==
    IF embeddings = <<>> THEN Raise("ValueError")
    ELSE LET similarities == [i \in 1..Len(embeddings) |->
                                 Dot(Normalized(query_embedding), Normalized(embeddings[i]))]
             top_indices  == SliceTo(Reverse(ArgSort(similarities)), top_k)
         IN  Returned([i \in 1..Len(top_indices) |->
                          [node |-> nodes[top_indices[i]],
                           score |-> similarities[top_indices[i]]]])

NoVecCall == [op |-> "none"]

NoVecResult == [faiss |-> <<>>, opensearch |-> <<>>]

NoAppCall == [op |-> "none"]

\* The local mode and the Streamlit app keep an index of their own: they run
\* in a process that has not written to the configured store.
StoreUntouched == ~faiss.exists /\ opensearch = <<>> /\ vecCall.op = "none" /\ appCall.op = "none"

UpsertVectors ==
    /\ vecCall.op = "none"
    /\ appCall.op = "none"
    /\ \E documents \in SeqsUpTo(Docs, 1) :
        /\ Len(faiss.ids) + Len(documents) <= MaxVectors
        /\ vecCall' = [op |-> "upsert_vectors", documents |-> documents]
        /\ faiss' = upsert_faiss(faiss, documents)
        /\ opensearch' = upsert_opensearch(opensearch, documents)
        /\ vecResult' = NoVecResult
    /\ UNCHANGED <<localVars, rateVars, fetchVars, loadVars, appVars, stepVars>>

QueryVectors ==
    /\ vecCall.op = "none"
    /\ appCall.op = "none"
    /\ \E query_vector \in Vectors, top_k \in TopKs, namespaces \in NamespaceFilters :
        /\ vecCall' = [op |-> "query_vectors", query_vector |-> query_vector,
                       top_k |-> top_k, namespaces |-> namespaces]
        /\ vecResult' = [faiss |-> query_faiss(faiss, query_vector, top_k, namespaces),
                         opensearch |->
                             query_opensearch(opensearch, query_vector, top_k, namespaces)]
    /\ UNCHANGED <<faiss, opensearch, localVars, rateVars, fetchVars, loadVars, appVars,
                   stepVars>>

QueryLocalVectors ==
    /\ StoreUntouched
    /\ \E index \in SeqsUpTo(Vectors, MaxVectors), query_vector \in Vectors, top_k \in TopKs :
        /\ vecCall' = [op |-> "query_local_vectors", index |-> index,
                       query_vector |-> query_vector, top_k |-> top_k]
        /\ vecResult' =
               [faiss |-> query_local_vectors(index, SliceTo(EmbeddedNodes, Len(index)),
                                              query_vector, top_k),
                opensearch |-> <<>>]
    /\ UNCHANGED <<faiss, opensearch, localVars, rateVars, fetchVars, loadVars, appVars,
                   stepVars>>

ReturnVec ==
    /\ vecCall.op # "none"
    /\ vecCall' = NoVecCall
    /\ vecResult' = NoVecResult
    /\ UNCHANGED <<faiss, opensearch, localVars, rateVars, fetchVars, loadVars, appVars,
                   stepVars>>

SearchSimilarNodes ==
    /\ StoreUntouched
    /\ \E embeddings \in SeqsUpTo(Vectors, MaxVectors), query \in Vectors, top_k \in TopKs :
        /\ appCall' = [op |-> "search_similar_nodes", embeddings |-> embeddings,
                       query |-> query, top_k |-> top_k]
        /\ appResult' = search_similar_nodes(query, SliceTo(EmbeddedNodes, Len(embeddings)),
                                             embeddings, top_k)
    /\ UNCHANGED <<localVars, rateVars, fetchVars, loadVars, storeVars, stepVars>>

ReturnApp ==
    /\ appCall.op # "none"
    /\ appCall' = NoAppCall
    /\ appResult' = Returned(<<>>)
    /\ UNCHANGED <<localVars, rateVars, fetchVars, loadVars, storeVars, stepVars>>

InitVector == LocalIdle /\ RateIdle /\ FetchIdle /\ LoadIdle /\ StoreIdle /\ AppIdle /\ StepIdle

NextVector ==
    \/ UpsertVectors
    \/ QueryVectors
    \/ QueryLocalVectors
    \/ ReturnVec
    \/ SearchSimilarNodes
    \/ ReturnApp

SpecVector == InitVector /\ [][NextVector]_vars

(***************************************************************************)
(* The local vector store's loader and initializer                         *)
(* (src/src/retrieval/vector_store_local.py), step by step.  An index or a *)
(* metadata list is known by the initialization that built it and by its   *)
(* number of entries; NoneObj stands for None and for an absent file.      *)
(* Each thread makes one call.                                             *)
(***************************************************************************)
\* The depth at which the interpreter raises RecursionError (1000 by
\* default, counted here in frames of load_local_vector_store).
RecursionLimit == 3

Obj(gen, n) == [gen |-> gen, n |-> n]

\* The initialization a thread runs; 1 is the one an earlier process ran.
GenOf(t) == IF t = "t1" THEN 2 ELSE 3

\* faiss_index.bin and metadata.pkl as an earlier process left them: each
\* absent, or written from a sample graph of one node.
LocalFileStates ==
    [index : {NoneObj, Obj(1, 1)}, metadata : {NoneObj, Obj(1, 1)}]

\* The sample graph file: missing, without nodes, or with one or two nodes.
VsGraphFiles == {gf \in GraphFiles : gf.edges = <<>> /\ Len(gf.nodes) <= 2}

\* The recursive call that takes no new frame.
SameFrame(depth) == depth

\* return load_local_vector_store(config_path): one frame deeper.
DeeperFrame(depth) == depth + 1

RecursionLimitReached(depth) == depth >= RecursionLimit

\* The function returns; load_local_vector_store goes on when it was the
\* caller of initialize_local_vector_store.
VsReturn(frame) ==
    [frame EXCEPT !.pc = IF frame.nested THEN "recurse" ELSE "done"]

\* A thread calls load_local_vector_store.
VsCallLoad(t) ==
    /\ vs[t].pc = "idle"
    /\ vs' = [vs EXCEPT ![t] = [@ EXCEPT !.pc = "check_cache", !.fn = "load", !.depth = 1]]
    /\ UNCHANGED <<saver, loader, localFiles, INDEX_CACHE, METADATA_CACHE, localVars, rateVars,
                   fetchVars, loadVars, storeVars, appVars>>

\* A thread calls initialize_local_vector_store.
VsCallInitialize(t) ==
    /\ vs[t].pc = "idle"
    /\ vs' = [vs EXCEPT ![t] = [@ EXCEPT !.pc = "init_start", !.fn = "initialize"]]
    /\ UNCHANGED <<saver, loader, localFiles, INDEX_CACHE, METADATA_CACHE, localVars, rateVars,
                   fetchVars, loadVars, storeVars, appVars>>

\* if _INDEX_CACHE is not None and _METADATA_CACHE is not None
VsCheckCache(t) ==
    /\ vs[t].pc = "check_cache"
    /\ vs' = [vs EXCEPT ![t].pc = IF INDEX_CACHE # NoneObj /\ METADATA_CACHE # NoneObj
                                  THEN "return_index" ELSE "exists"]
    /\ UNCHANGED <<saver, loader, localFiles, INDEX_CACHE, METADATA_CACHE, localVars, rateVars,
                   fetchVars, loadVars, storeVars, appVars>>

\* return _INDEX_CACHE, _METADATA_CACHE: the first global is read ...
VsReturnIndex(t) ==
    /\ vs[t].pc = "return_index"
    /\ vs' = [vs EXCEPT ![t] = [@ EXCEPT !.pc = "return_metadata", !.index = INDEX_CACHE]]
    /\ UNCHANGED <<saver, loader, localFiles, INDEX_CACHE, METADATA_CACHE, localVars, rateVars,
                   fetchVars, loadVars, storeVars, appVars>>

\* ... then the second, and the pair is returned through every frame.
VsReturnMetadata(t) ==
    /\ vs[t].pc = "return_metadata"
    /\ vs' = [vs EXCEPT ![t] = [@ EXCEPT !.pc = "done", !.metadata = METADATA_CACHE]]
    /\ UNCHANGED <<saver, loader, localFiles, INDEX_CACHE, METADATA_CACHE, localVars, rateVars,
                   fetchVars, loadVars, storeVars, appVars>>

\* if not index_path.exists() or not metadata_path.exists(): initialize.
VsExists(t) ==
    /\ vs[t].pc = "exists"
    /\ vs' = [vs EXCEPT ![t] =
                 IF localFiles.index = NoneObj \/ localFiles.metadata = NoneObj
                 THEN [@ EXCEPT !.pc = "init_start", !.nested = TRUE]
                 ELSE [@ EXCEPT !.pc = "read_index"]]
    /\ UNCHANGED <<saver, loader, localFiles, INDEX_CACHE, METADATA_CACHE, localVars, rateVars,
                   fetchVars, loadVars, storeVars, appVars>>

\* index = faiss.read_index(str(index_path))
VsReadIndex(t) ==
    /\ vs[t].pc = "read_index"
    /\ vs' = [vs EXCEPT ![t] = [@ EXCEPT !.pc = "read_metadata", !.index = localFiles.index]]
    /\ UNCHANGED <<saver, loader, localFiles, INDEX_CACHE, METADATA_CACHE, localVars, rateVars,
                   fetchVars, loadVars, storeVars, appVars>>

\* metadata = pickle.load(f)
VsReadMetadata(t) ==
    /\ vs[t].pc = "read_metadata"
    /\ vs' = [vs EXCEPT ![t] = [@ EXCEPT !.pc = "load_set_index",
                                         !.metadata = localFiles.metadata]]
    /\ UNCHANGED <<saver, loader, localFiles, INDEX_CACHE, METADATA_CACHE, localVars, rateVars,
                   fetchVars, loadVars, storeVars, appVars>>

\* _INDEX_CACHE = index (load_local_vector_store)
VsLoadSetIndex(t) ==
    /\ vs[t].pc = "load_set_index"
    /\ INDEX_CACHE' = vs[t].index
    /\ vs' = [vs EXCEPT ![t].pc = "load_set_metadata"]
    /\ UNCHANGED <<saver, loader, localFiles, METADATA_CACHE, localVars, rateVars, fetchVars,
                   loadVars, storeVars, appVars>>

\* _METADATA_CACHE = metadata, and return index, metadata.
VsLoadSetMetadata(t) ==
    /\ vs[t].pc = "load_set_metadata"
    /\ METADATA_CACHE' = vs[t].metadata
    /\ vs' = [vs EXCEPT ![t].pc = "done"]
    /\ UNCHANGED <<saver, loader, localFiles, INDEX_CACHE, localVars, rateVars, fetchVars,
                   loadVars, storeVars, appVars>>

\* initialize_local_vector_store up to the index in memory: it returns at
\* once when the graph file is missing or has no nodes.
VsInitStart(t) ==
    /\ vs[t].pc = "init_start"
    /\ vs' = [vs EXCEPT ![t] =
                 IF ~graphFile.exists \/ graphFile.nodes = <<>>
                 THEN VsReturn(@)
                 ELSE [@ EXCEPT !.pc = "write_index",
                                !.index = Obj(GenOf(t), Len(graphFile.nodes)),
                                !.metadata = Obj(GenOf(t), Len(graphFile.nodes))]]
    /\ UNCHANGED <<saver, loader, localFiles, INDEX_CACHE, METADATA_CACHE, localVars, rateVars,
                   fetchVars, loadVars, storeVars, appVars>>

\* faiss.write_index(index, str(index_path))
VsWriteIndex(t) ==
    /\ vs[t].pc = "write_index"
    /\ localFiles' = [localFiles EXCEPT !.index = vs[t].index]
    /\ vs' = [vs EXCEPT ![t].pc = "write_metadata"]
    /\ UNCHANGED <<saver, loader, INDEX_CACHE, METADATA_CACHE, localVars, rateVars, fetchVars,
                   loadVars, storeVars, appVars>>

\* pickle.dump(metadata, f)
VsWriteMetadata(t) ==
    /\ vs[t].pc = "write_metadata"
    /\ localFiles' = [localFiles EXCEPT !.metadata = vs[t].metadata]
    /\ vs' = [vs EXCEPT ![t].pc = "set_index"]
    /\ UNCHANGED <<saver, loader, INDEX_CACHE, METADATA_CACHE, localVars, rateVars, fetchVars,
                   loadVars, storeVars, appVars>>

\* _INDEX_CACHE = index (initialize_local_vector_store)
VsSetIndex(t) ==
    /\ vs[t].pc = "set_index"
    /\ INDEX_CACHE' = vs[t].index
    /\ vs' = [vs EXCEPT ![t].pc = "set_metadata"]
    /\ UNCHANGED <<saver, loader, localFiles, METADATA_CACHE, localVars, rateVars, fetchVars,
                   loadVars, storeVars, appVars>>

\* _METADATA_CACHE = metadata, and the function returns.
VsSetMetadata(t) ==
    /\ vs[t].pc = "set_metadata"
    /\ METADATA_CACHE' = vs[t].metadata
    /\ vs' = [vs EXCEPT ![t] = VsReturn(@)]
    /\ UNCHANGED <<saver, loader, localFiles, INDEX_CACHE, localVars, rateVars, fetchVars,
                   loadVars, storeVars, appVars>>

\* return load_local_vector_store(config_path), after the initializer came
\* back: the next frame, or RecursionError when the stack is full.
VsRecurse(t) ==
    /\ vs[t].pc = "recurse"
    /\ vs' = [vs EXCEPT ![t] =
                 IF RecursionLimitReached(@.depth)
                 THEN [@ EXCEPT !.pc = "done", !.exc = "RecursionError"]
                 ELSE [@ EXCEPT !.pc = "check_cache", !.nested = FALSE,
                                !.depth = DeeperFrame(@)]]
    /\ UNCHANGED <<saver, loader, localFiles, INDEX_CACHE, METADATA_CACHE, localVars, rateVars,
                   fetchVars, loadVars, storeVars, appVars>>

\* A new process: the caches are None, the files are as they were left.
InitVs ==
    /\ graphFile \in VsGraphFiles
    /\ GRAPH_CACHE = NoGraph
    /\ call = NoCall
    /\ result = NoResult
    /\ RateIdle
    /\ FetchIdle
    /\ LoadIdle
    /\ StoreIdle
    /\ AppIdle
    /\ RaceIdle
    /\ localFiles \in LocalFileStates
    /\ CacheIdle

VsStep(t) ==
    \/ VsCallLoad(t)
    \/ VsCallInitialize(t)
    \/ VsCheckCache(t)
    \/ VsReturnIndex(t)
    \/ VsReturnMetadata(t)
    \/ VsExists(t)
    \/ VsReadIndex(t)
    \/ VsReadMetadata(t)
    \/ VsLoadSetIndex(t)
    \/ VsLoadSetMetadata(t)
    \/ VsInitStart(t)
    \/ VsWriteIndex(t)
    \/ VsWriteMetadata(t)
    \/ VsSetIndex(t)
    \/ VsSetMetadata(t)
    \/ VsRecurse(t)

NextVs ==
    \/ \E t \in Threads : VsCallLoad(t)
    \/ \E t \in Threads : VsCallInitialize(t)
    \/ \E t \in Threads : VsCheckCache(t)
    \/ \E t \in Threads : VsReturnIndex(t)
    \/ \E t \in Threads : VsReturnMetadata(t)
    \/ \E t \in Threads : VsExists(t)
    \/ \E t \in Threads : VsReadIndex(t)
    \/ \E t \in Threads : VsReadMetadata(t)
    \/ \E t \in Threads : VsLoadSetIndex(t)
    \/ \E t \in Threads : VsLoadSetMetadata(t)
    \/ \E t \in Threads : VsInitStart(t)
    \/ \E t \in Threads : VsWriteIndex(t)
    \/ \E t \in Threads : VsWriteMetadata(t)
    \/ \E t \in Threads : VsSetIndex(t)
    \/ \E t \in Threads : VsSetMetadata(t)
    \/ \E t \in Threads : VsRecurse(t)

SpecVs == InitVs /\ [][NextVs]_vars

\* Every thread that can take a step of its call eventually takes one.
SpecVsFair == SpecVs /\ \A t \in Threads : WF_vars(VsStep(t))

(***************************************************************************)
(* upsert_vectors and query_vectors on the FAISS files, step by step.      *)
(* _faiss_save writes the index file, the ids file and the meta file one   *)
(* after the other, under their final names and without a lock;            *)
(* _faiss_load_or_init tests that the three exist and reads them one after *)
(* the other.  faiss.exists says that all three exist: the meta file is    *)
(* the last to be created.                                                 *)
(***************************************************************************)
\* The documents the racing upserts add.
RaceDocs == {doc \in Docs : doc.vector = <<3, 4>>}

\* upsert_vectors up to the call of _faiss_save: the store in memory.
UpsertLoad ==
    /\ saver.pc = "idle"
    /\ \E doc \in RaceDocs :
        LET store == faiss_load_or_init(faiss)
        IN  /\ Len(store.ids) < MaxVectors
            /\ saver' = [pc    |-> "write_index",
                         store |-> [ids     |-> Append(store.ids, doc.id),
                                    vectors |-> Append(store.vectors, Normalized(doc.vector)),
                                    meta    |-> Append(store.meta,
                                                       <<doc.type, Or(doc.namespace, "")>>)]]
    /\ UNCHANGED <<loader, localFiles, INDEX_CACHE, METADATA_CACHE, vs, localVars, rateVars,
                   fetchVars, loadVars, storeVars, appVars>>

\* faiss.write_index(index, str(index_path))
SaveWriteIndex ==
    /\ saver.pc = "write_index"
    /\ faiss' = [faiss EXCEPT !.vectors = saver.store.vectors]
    /\ saver' = [saver EXCEPT !.pc = "write_ids"]
    /\ UNCHANGED <<loader, localFiles, INDEX_CACHE, METADATA_CACHE, vs, opensearch, vecCall,
                   vecResult, localVars, rateVars, fetchVars, loadVars, appVars>>

\* np.save(ids_path, ...)
SaveWriteIds ==
    /\ saver.pc = "write_ids"
    /\ faiss' = [faiss EXCEPT !.ids = saver.store.ids]
    /\ saver' = [saver EXCEPT !.pc = "write_meta"]
    /\ UNCHANGED <<loader, localFiles, INDEX_CACHE, METADATA_CACHE, vs, opensearch, vecCall,
                   vecResult, localVars, rateVars, fetchVars, loadVars, appVars>>

\* np.save(meta_path, ...), and upsert_vectors returns.
SaveWriteMeta ==
    /\ saver.pc = "write_meta"
    /\ faiss' = [faiss EXCEPT !.meta = saver.store.meta, !.exists = TRUE]
    /\ saver' = [pc |-> "idle", store |-> EmptyStore]
    /\ UNCHANGED <<loader, localFiles, INDEX_CACHE, METADATA_CACHE, vs, opensearch, vecCall,
                   vecResult, localVars, rateVars, fetchVars, loadVars, appVars>>

\* query_vectors enters _faiss_load_or_init: the test that the files exist.
LoadCheckExists ==
    /\ loader.pc = "idle"
    /\ loader' = [pc |-> IF faiss.exists THEN "read_index" ELSE "search",
                  store |-> EmptyStore, outcome |-> "none", result |-> <<>>]
    /\ UNCHANGED <<saver, localFiles, INDEX_CACHE, METADATA_CACHE, vs, localVars, rateVars,
                   fetchVars, loadVars, storeVars, appVars>>

\* index = faiss.read_index(str(index_path))
LoadReadIndex ==
    /\ loader.pc = "read_index"
    /\ loader' = [loader EXCEPT !.pc = "read_ids", !.store.vectors = faiss.vectors]
    /\ UNCHANGED <<saver, localFiles, INDEX_CACHE, METADATA_CACHE, vs, localVars, rateVars,
                   fetchVars, loadVars, storeVars, appVars>>

\* ids = np.load(ids_path, allow_pickle=True).tolist()
LoadReadIds ==
    /\ loader.pc = "read_ids"
    /\ loader' = [loader EXCEPT !.pc = "read_meta", !.store.ids = faiss.ids]
    /\ UNCHANGED <<saver, localFiles, INDEX_CACHE, METADATA_CACHE, vs, localVars, rateVars,
                   fetchVars, loadVars, storeVars, appVars>>

\* meta = np.load(meta_path, allow_pickle=True), and the three are returned.
LoadReadMeta ==
    /\ loader.pc = "read_meta"
    /\ loader' = [loader EXCEPT !.pc = "search", !.store.meta = faiss.meta]
    /\ UNCHANGED <<saver, localFiles, INDEX_CACHE, METADATA_CACHE, vs, localVars, rateVars,
                   fetchVars, loadVars, storeVars, appVars>>

\* ids[idx] or meta[idx, 0] of a hit beyond the rows that were read.
SearchRaises(store, query_vector, top_k) ==
    LET rows == FaissSearch(store.vectors, Normalized(query_vector), top_k)
    IN  \E r \in 1..Len(rows) :
            /\ rows[r].idx # -1
            /\ rows[r].idx > Len(store.ids) \/ rows[r].idx > Len(store.meta)

\* The rest of query_vectors over what was loaded.
LoadedSearch ==
    /\ loader.pc = "search"
    /\ \E query_vector \in Vectors, top_k \in TopKs, namespaces \in NamespaceFilters :
        IF Len(loader.store.vectors) # 0 /\ SearchRaises(loader.store, query_vector, top_k)
        THEN loader' = [loader EXCEPT !.pc = "idle", !.outcome = "IndexError"]
        ELSE loader' = [loader EXCEPT
                           !.pc = "idle", !.outcome = "returned",
                           !.result = query_faiss([exists  |-> TRUE,
                                                   ids     |-> loader.store.ids,
                                                   vectors |-> loader.store.vectors,
                                                   meta    |-> loader.store.meta],
                                                  query_vector, top_k, namespaces)]
    /\ UNCHANGED <<saver, localFiles, INDEX_CACHE, METADATA_CACHE, vs, localVars, rateVars,
                   fetchVars, loadVars, storeVars, appVars>>

NextFaissRace ==
    \/ UpsertLoad
    \/ SaveWriteIndex
    \/ SaveWriteIds
    \/ SaveWriteMeta
    \/ LoadCheckExists
    \/ LoadReadIndex
    \/ LoadReadIds
    \/ LoadReadMeta
    \/ LoadedSearch

SpecFaissRace == InitVector /\ [][NextFaissRace]_vars

(***************************************************************************)
(* build_context_from_graph (src/app.py).  A text is the sequence of the   *)
(* literal pieces and field values an f-string or a join puts together.    *)
(***************************************************************************)
\* sep.join(pieces), each piece a text.
RECURSIVE Join(_, _)
Join(sep, pieces) ==
    IF pieces = <<>> THEN <<>>
    ELSE IF Len(pieces) = 1 THEN pieces[1]
    ELSE pieces[1] \o <<sep>> \o Join(sep, Tail(pieces))

\* d.get(key, default) on a field that holds None when the key is missing.
Get(value, default) == IF value = None THEN default ELSE value

\* ", ".join(pmids) if pmids else "No PMIDs"
PmidStr(item) ==
    LET pmids == Get(item.pmids, <<>>)
    IN  IF pmids = <<>> THEN <<"No PMIDs">>
        ELSE Join(", ", [i \in 1..Len(pmids) |-> <<pmids[i]>>])

EntitiesHeader == <<"### Relevant Biomedical Entities:\n">>

RelationshipsHeader == <<"\n### Relationships:\n">>

EntityEntry(node) ==
    <<"- **", node.name, "** (", node.type, "): ", Get(node.description, ""), "\n",
      "  PMIDs: ">> \o PmidStr(node) \o <<"\n">>

RelationshipEntry(edge) ==
    <<"- ", edge.source, " -> **", edge.relation, "** -> ", edge.target, "\n",
      "  ", Get(edge.description, ""), "\n", "  PMIDs: ">> \o PmidStr(edge) \o <<"\n">>

\* The formatter with the two sections swapped.
build_context_relationships_first(nodes, edges) ==
    LET context_parts ==
            <<RelationshipsHeader>> \o [i \in 1..Len(edges) |-> RelationshipEntry(edges[i])]
            \o <<EntitiesHeader>> \o [i \in 1..Len(nodes) |-> EntityEntry(nodes[i])]
    IN  [parts |-> context_parts, text |-> Join("\n", context_parts)]

\* build_context_from_graph: context_parts as the loops leave it, and the
\* text returned.
build_context_from_graph(nodes, edges) ==
    LET context_parts ==
            <<EntitiesHeader>> \o [i \in 1..Len(nodes) |-> EntityEntry(nodes[i])]
            \o <<RelationshipsHeader>> \o [i \in 1..Len(edges) |-> RelationshipEntry(edges[i])]
    IN  [parts |-> context_parts, text |-> Join("\n", context_parts)]

\* Nodes and edges as expand_graph_from_seeds hands them over; None: the
\* key is missing.
ContextNodes ==
    {[name |-> "EGFR", type |-> "Gene", description |-> "Epidermal growth factor receptor",
      pmids |-> <<"101", "102">>],
     [name |-> "Lung cancer", type |-> "Disease", description |-> None, pmids |-> None],
     [name |-> "Erlotinib", type |-> "Drug", description |-> "EGFR inhibitor", pmids |-> <<>>]}

ContextEdges ==
    {[source |-> "GENE_EGFR", relation |-> "ASSOCIATED_WITH", target |-> "DISEASE_NSCLC",
      description |-> "EGFR mutations drive NSCLC", pmids |-> <<"101">>],
     [source |-> "DRUG_ERLOTINIB", relation |-> "TARGETS", target |-> "GENE_EGFR",
      description |-> None, pmids |-> None]}

BuildContextFromGraph ==
    /\ appCall.op = "none"
    /\ \E nodes \in SeqsUpTo(ContextNodes, MaxItems), edges \in SeqsUpTo(ContextEdges, MaxItems) :
        /\ appCall' = [op |-> "build_context_from_graph", nodes |-> nodes, edges |-> edges]
        /\ appResult' = Returned(build_context_from_graph(nodes, edges))
    /\ UNCHANGED <<localVars, rateVars, fetchVars, loadVars, storeVars, stepVars>>

InitApp == LocalIdle /\ RateIdle /\ FetchIdle /\ LoadIdle /\ StoreIdle /\ AppIdle /\ StepIdle

NextApp ==
    \/ SearchSimilarNodes
    \/ BuildContextFromGraph
    \/ ReturnApp

SpecApp == InitApp /\ [][NextApp]_vars

(***************************************************************************)
(* Properties of the local backend (SpecLocal).                            *)
(***************************************************************************)
IsExpandSubgraph == call.op = "expand_subgraph"

IsExpandFromSeeds == call.op = "expand_graph_from_seeds"

\* The graph the last expand_subgraph call worked on.
LoadedGraph == GRAPH_CACHE[1]

\* The records expand_graph_from_seeds worked on, read as a graph.
GraphData == load_graph_data(graphFile)

InducedEdges(G, S) == {e \in ToSet(G.edges) : e.source \in S /\ e.target \in S}

Adjacent(G, u, v) == HasEdge(G, u, v) \/ HasEdge(G, v, u)

\* The nodes of G joined to a seed by an undirected path of at most h edges.
WithinHops(G, S, h) ==
    {n \in ToSet(G.nodes) :
        \E p \in SeqsUpTo(ToSet(G.nodes), h + 1) :
            /\ Len(p) >= 1
            /\ p[1] \in S
            /\ p[Len(p)] = n
            /\ \A i \in 1..(Len(p) - 1) : Adjacent(G, p[i], p[i + 1])}

MaxOf(S) == CHOOSE m \in S : \A x \in S : x <= m

LargestDegree(G) ==
    MaxOf({0} \cup {Len(successors(G, n)) : n \in ToSet(G.nodes)}
              \cup {Len(predecessors(G, n)) : n \in ToSet(G.nodes)})

NoDuplicates(s) == \A i, j \in 1..Len(s) : s[i] = s[j] => i = j

\* C1: with hops = 0 and every seed a node of the graph, local expansion
\* returns exactly the seeds and exactly the edges of the graph between two
\* seeds, in expand_subgraph and in expand_graph_from_seeds.
C1_HopsZeroExact ==
    /\ (IsExpandSubgraph /\ call.hops = 0 /\ call.seed_ids \subseteq ToSet(LoadedGraph.nodes))
        => /\ ~result.raised
           /\ ToSet(result.nodes) = call.seed_ids
           /\ NoDuplicates(result.nodes)
           /\ ToSet(result.rels) = InducedEdges(LoadedGraph, call.seed_ids)
           /\ NoDuplicates(result.rels)
    /\ (IsExpandFromSeeds /\ call.hops = 0 /\ call.seed_ids \subseteq ToSet(GraphData.nodes))
        => /\ ToSet(result.nodes) = call.seed_ids
           /\ NoDuplicates(result.nodes)
           /\ result.rels = SelectSeq(GraphData.edges,
                                      LAMBDA e : e.source \in call.seed_ids
                                                 /\ e.target \in call.seed_ids)

\* C1 witness: a hops = 0 expansion from two seeds of a graph that has an
\* edge between them, returned, and another edge leaving them, not returned.
C1_Witness ==
    /\ IsExpandSubgraph
    /\ call.hops = 0
    /\ Cardinality(call.seed_ids) = 2
    /\ call.seed_ids \subseteq ToSet(LoadedGraph.nodes)
    /\ Len(result.rels) = 1
    /\ Len(LoadedGraph.edges) = 2

\* C2 (as claimed): with max_degree at least the largest degree, local
\* expansion returns exactly the nodes within hops undirected steps of a
\* seed and exactly the edges of the graph between those nodes.
C2_ExactNeighbourhood ==
    /\ (IsExpandSubgraph /\ call.seed_ids # {}
            /\ call.max_degree >= LargestDegree(LoadedGraph))
        => /\ ToSet(result.nodes) = WithinHops(LoadedGraph, call.seed_ids, call.hops)
           /\ ToSet(result.rels) = InducedEdges(LoadedGraph, ToSet(result.nodes))
    /\ IsExpandFromSeeds
        => /\ ToSet(result.nodes) = WithinHops(GraphData, call.seed_ids, call.hops)
           /\ ToSet(result.rels) = InducedEdges(GraphData, ToSet(result.nodes))

\* The part of C2 on expand_subgraph alone.
C2_ExpandSubgraphOnly ==
    (IsExpandSubgraph /\ call.max_degree >= LargestDegree(LoadedGraph))
        => /\ ToSet(result.nodes) = WithinHops(LoadedGraph, call.seed_ids, call.hops)
           /\ ToSet(result.rels) = InducedEdges(LoadedGraph, ToSet(result.nodes))

\* C3: the nodes and edges expand_subgraph returns for hops = h are among
\* those it returns for hops = h + 1, seeds and max_degree being the same.
C3_MonotoneInHops ==
    IsExpandSubgraph =>
        LET more == expand_subgraph(LoadedGraph, call.seed_ids, call.hops + 1,
                                    call.max_degree)
        IN  /\ ToSet(result.nodes) \subseteq ToSet(more.nodes)
            /\ ToSet(result.rels) \subseteq ToSet(more.rels)

\* C3 witness: an expansion that one more hop strictly enlarges, with a
\* max_degree that cuts a neighbour list.
C3_Witness ==
    /\ IsExpandSubgraph
    /\ call.hops = 1
    /\ call.max_degree = 1
    /\ LargestDegree(LoadedGraph) = 2
    /\ Len(result.nodes) = 2
    /\ Len(expand_subgraph(LoadedGraph, call.seed_ids, 2, 1).nodes) = 3

RECURSIVE Frontier(_, _, _, _)
Frontier(G, S, i, d) == IF i <= 0 THEN S ELSE NextLayer(G, Frontier(G, S, i - 1, d), d)

C6_DanglingEdgesFiltered ==
    (IsExpandSubgraph \/ IsExpandFromSeeds) =>
        \A e \in ToSet(result.rels) :
            /\ e.source \in ToSet(graphFile.nodes)
            /\ e.target \in ToSet(graphFile.nodes)
            /\ e.source \in ToSet(result.nodes)
            /\ e.target \in ToSet(result.nodes)

\* The part of C6 that expand_subgraph keeps: returned edges join returned nodes.
C6_ExpandSubgraphEndpointsReturned ==
    IsExpandSubgraph =>
        \A e \in ToSet(result.rels) :
            e.source \in ToSet(result.nodes) /\ e.target \in ToSet(result.nodes)


(***************************************************************************)
(* Properties of the rate gate (SpecRateSeq, SpecRate).                    *)
(***************************************************************************)
\* C8: of the requests one caller issues one after another through one
\* fetcher, any two consecutive ones are at least min_request_interval apart,
\* and the last is at least (N-1) * min_request_interval after the first.
C8_SequentialSpacing ==
    LET N == Len(requestLog)
    IN  /\ \A i \in 1..(N - 1) : requestLog[i + 1] - requestLog[i] >= MinRequestInterval
        /\ N >= 1 => requestLog[N] - requestLog[1] >= (N - 1) * MinRequestInterval

\* C8 witness: three requests, the second one held back by the gate until
\* exactly min_request_interval after the first.
C8_Witness ==
    /\ Len(requestLog) = 3
    /\ requestLog[2] - requestLog[1] = MinRequestInterval
    /\ requestLog[3] - requestLog[2] > MinRequestInterval

\* C9 (as claimed): whatever the number of concurrent callers, no two
\* requests go out less than min_request_interval apart.
C9_NoBurstUnderConcurrency ==
    \A i \in 1..(Len(requestLog) - 1) :
        requestLog[i + 1] - requestLog[i] >= MinRequestInterval


(***************************************************************************)
(* Properties of the fetcher (SpecFetch).                                  *)
(***************************************************************************)
ApiMethods ==
    {"search_genes", "fetch_gene_details", "search_publications",
     "fetch_publication_details"}

\* An external call made inside the last method call failed: the method's
\* own request for the fetch_ methods, either request for the search_ methods.
ExternalCallFailed ==
    /\ apiCall.op \in ApiMethods
    /\ \/ apiCall.second.status # "ok" /\ apiCall.op \in {"fetch_gene_details",
                                                           "fetch_publication_details"}
       \/ /\ apiCall.op \in {"search_genes", "search_publications"}
          /\ \/ apiCall.first.status # "ok"
             \/ apiCall.first.idlist # <<>> /\ apiCall.first.ids_are_str
                    /\ apiCall.second.status # "ok"

\* C10: a failed external call (timeout, non-2xx status, unparseable or
\* misshapen payload) inside search_genes, fetch_gene_details,
\* search_publications or fetch_publication_details ends in an empty list, and
\* none of the four raises to its caller, whatever the responses.
C10_FailuresBecomeEmptyLists ==
    /\ ExternalCallFailed => apiResult = Returned(<<>>)
    /\ apiCall.op \in ApiMethods => apiResult.exc = "none"

\* C10 witness: search_genes whose search succeeded with ids and whose
\* esummary payload did not parse, returning the empty list.
C10_Witness ==
    /\ apiCall.op = "search_genes"
    /\ apiCall.first.status = "ok"
    /\ apiCall.first.idlist # <<>>
    /\ apiCall.first.ids_are_str
    /\ apiCall.second.status = "malformed"
    /\ apiResult = Returned(<<>>)


IsBuildRealtimeGraph == apiCall.op = "build_realtime_graph"

Triple(e) == <<e.source, e.target, e.relation>>

\* C7: the result of expansion is duplicate-free: the ids of its nodes are
\* pairwise distinct and no two of its edges have the same (source, target,
\* relation), in the graph build_realtime_graph returns whatever the
\* endpoints answer, and in the result of expand_subgraph.
C7_SubgraphDuplicateFree ==
    /\ IsBuildRealtimeGraph =>
        /\ NoDuplicates([i \in 1..Len(apiResult.nodes) |-> apiResult.nodes[i].id])
        /\ NoDuplicates([i \in 1..Len(apiResult.edges) |-> Triple(apiResult.edges[i])])
    /\ (IsExpandSubgraph /\ ~result.raised) =>
        /\ NoDuplicates(result.nodes)
        /\ NoDuplicates([i \in 1..Len(result.rels) |-> Triple(result.rels[i])])

\* The expand_subgraph half of C7 on its own, for SpecLocal.
C7_ExpandSubgraphDuplicateFree ==
    (IsExpandSubgraph /\ ~result.raised) =>
        /\ NoDuplicates(result.nodes)
        /\ NoDuplicates([i \in 1..Len(result.rels) |-> Triple(result.rels[i])])


IsAnswerQuestion == apiCall.op = "answer_question" /\ ~apiCall.blank

\* A source answered: its search and its detail request both came back well.
Succeeded(answer) == answer[1].status = "ok" /\ answer[2].status = "ok"

Ids(nodes) == {nodes[i].id : i \in 1..Len(nodes)}

GeneIdsOf(answer) ==
    IF Succeeded(answer)
    THEN Ids([i \in 1..Len(answer[2].result) |-> GeneNode(answer[2].result[i])])
    ELSE {}

PublicationIdsOf(answer) ==
    IF Succeeded(answer)
    THEN Ids([i \in 1..Len(answer[2].articles) |-> PublicationNode(answer[2].articles[i])])
    ELSE {}

\* The build_realtime_graph half of C11: whichever of the gene searches, the
\* publication search and the association searches fail, the call returns,
\* and the graph holds the genes and publications of the searches that
\* succeeded and the disease of every association edge.
C11_BuildKeepsPartialData ==
    IsBuildRealtimeGraph =>
        /\ apiResult.exc = "none"
        /\ \A i \in 1..Len(apiCall.geneAnswers) :
              GeneIdsOf(apiCall.geneAnswers[i]) \subseteq Ids(apiResult.nodes)
        /\ PublicationIdsOf(apiCall.pubAnswer) \subseteq Ids(apiResult.nodes)
        /\ \A i \in 1..Len(apiResult.edges) :
              apiResult.edges[i].relation = "ASSOCIATED_WITH"
                  => apiResult.edges[i].target \in Ids(apiResult.nodes)

\* C11: no single source's failure aborts the request: for every combination
\* of failing and succeeding sources, build_realtime_graph and the /api/qa
\* handler of simple_app return without raising, and the result holds every
\* node obtained from the sources that succeeded.
C11_SourceFailureNeverAborts ==
    /\ C11_BuildKeepsPartialData
    /\ IsAnswerQuestion =>
        /\ apiResult.exc = "none"
        /\ GeneIdsOf(apiCall.geneAnswer) \subseteq Ids(apiResult.nodes)
        /\ PublicationIdsOf(apiCall.pubAnswer) \subseteq Ids(apiResult.nodes)

\* Every article the publication source returned has a title and an abstract
\* with text of their own.
NoNullFields(answer) ==
    \A i \in 1..Len(answer[2].articles) :
        /\ answer[2].articles[i].title # EmptyElement
        /\ answer[2].articles[i].abstract # EmptyElement

\* The /api/qa half of C11 for responses without null fields.
C11_HandlerKeepsPartialDataWithoutNulls ==
    (IsAnswerQuestion /\ (Succeeded(apiCall.pubAnswer) => NoNullFields(apiCall.pubAnswer))) =>
        /\ apiResult.exc = "none"
        /\ GeneIdsOf(apiCall.geneAnswer) \subseteq Ids(apiResult.nodes)
        /\ PublicationIdsOf(apiCall.pubAnswer) \subseteq Ids(apiResult.nodes)


(***************************************************************************)
(* Properties of the graph cache (SpecLoadSeq, SpecLoad).                  *)
(***************************************************************************)
\* C12: when threads make the first access to load_local_graph at once, the
\* race ends in one initialization: every caller that has got a graph has
\* got the same object, the one _GRAPH_CACHE refers to.
C12_SingleInitialization ==
    \A t \in Threads :
        received[t].id # 0 =>
            /\ received[t].id = graphId
            /\ \A u \in Threads : received[u].id # 0 => received[u].id = received[t].id

\* C13: in a sequential run, once load_local_graph has returned a graph,
\* no later step reads a graph file, creates a graph or changes the cache,
\* and every later call returns that same object without raising, whatever
\* config path it is given.
C13_CachedForLifetime ==
    [][received["t1"].id # 0 =>
          /\ fileReads' = fileReads
          /\ objects' = objects
          /\ GRAPH_CACHE' = GRAPH_CACHE
          /\ graphId' = graphId
          /\ received'["t1"] = received["t1"]]_vars

\* C13 witness: the first load found no graph file and cached an empty
\* graph; a later call naming a config file that does not exist got it back.
C13_Witness ==
    /\ ~graphFile.exists
    /\ GRAPH_CACHE = <<EmptyDiGraph>>
    /\ loadPc["t1"] = "idle"
    /\ loadCfg["t1"] = "configs/missing.yaml"
    /\ received["t1"] = [id |-> 1, exc |-> "none"]
    /\ objects = 1



\* C20: a call of expand_subgraph with no seeds leaves the graph store
\* alone: the cache is after the call what it was before it.
C20_EmptySeedsTouchNothing ==
    [][(call.op = "none" /\ call'.op = "expand_subgraph" /\ call'.seed_ids = {})
          => GRAPH_CACHE' = GRAPH_CACHE]_vars

\* C20, the part that holds: with no seeds expand_subgraph returns the
\* empty subgraph and does not raise.
C20_EmptySeedsGiveEmptySubgraph ==
    (call.op = "expand_subgraph" /\ call.seed_ids = {})
        => result = [nodes |-> <<>>, rels |-> <<>>, raised |-> FALSE]

\* The field of a node made from an element that is absent or has no text
\* is the empty string, and no field is null.
DegradesToEmpty(elem, field) ==
    /\ field # None
    /\ elem \in {AbsentElement, EmptyElement} => field = ""

\* C19: a PMID, title or abstract that is missing or empty in the efetch
\* response gives an empty string in the node, never a null value, and
\* neither build_realtime_graph nor query_realtime_vectors fails on the
\* nodes the response gave.
C19_MissingFieldsDegradeToEmpty ==
    /\ (apiCall.op = "fetch_publication_details" /\ apiCall.second.status = "ok")
           => \A i \in 1..Len(apiResult.value) :
                  /\ apiResult.value[i].pmid # None
                  /\ DegradesToEmpty(apiCall.second.articles[i].title, apiResult.value[i].title)
                  /\ DegradesToEmpty(apiCall.second.articles[i].abstract,
                                     apiResult.value[i].abstract)
    /\ apiCall.op \in {"build_realtime_graph", "query_realtime_vectors"}
           => apiResult.exc = "none"

\* C19, the part that holds: build_realtime_graph does not fail on nodes
\* whose title or abstract is null, and query_realtime_vectors returns at
\* most top_k seeds when no abstract is null.
C19_EdgeInferenceToleratesNulls ==
    /\ apiCall.op = "build_realtime_graph" => apiResult.exc = "none"
    /\ (apiCall.op = "query_realtime_vectors"
           /\ \A i \in 1..Len(apiCall.pubAnswer[2].articles) :
                  apiCall.pubAnswer[2].articles[i].abstract # EmptyElement)
           => (apiResult.exc = "none" /\ Len(apiResult.value) <= apiCall.top_k)

\* C18: load_local_graph never substitutes an empty graph for a graph file
\* that is missing: as long as no graph file has been read, no graph is
\* cached and none has been returned.
C18_MissingGraphFileIsAnError ==
    fileReads = 0 => (GRAPH_CACHE = NoGraph /\ \A t \in Threads : received[t].id = 0)

(***************************************************************************)
(* Properties of the vector stores (SpecVector).                           *)
(***************************************************************************)
\* The similarities of a result list, most similar first: at most top_k of
\* them, none when the index is empty, one per vector when the index holds
\* fewer than top_k.
TopKOrdered(similarity, top_k, size) ==
    /\ Len(similarity) <= top_k
    /\ \A i, j \in 1..Len(similarity) : i < j => similarity[i] >= similarity[j]
    /\ size = 0 => similarity = <<>>
    /\ size < top_k => Len(similarity) = size

Scores(results) == [i \in 1..Len(results) |-> results[i].score]

\* The similarity of a result of the local index: the nearer, the more similar.
Nearness(results) == [i \in 1..Len(results) |-> 0 - results[i].score]

\* C14, the stores: with no namespace filter configured, query_vectors on
\* the FAISS backend and query_local_vectors return at most top_k results,
\* most similar first, none from an empty index and one per vector from an
\* index of fewer than top_k vectors.
C14_StoreQueriesOrderedAndSized ==
    /\ (vecCall.op = "query_vectors" /\ vecCall.namespaces = <<>>)
           => TopKOrdered(Scores(vecResult.faiss), vecCall.top_k, Len(faiss.ids))
    /\ vecCall.op = "query_local_vectors"
           => TopKOrdered(Nearness(vecResult.faiss), vecCall.top_k, Len(vecCall.index))

IsRoundTrip ==
    /\ vecCall.op = "query_vectors"
    /\ vecCall.top_k = 1
    /\ faiss.ids # <<>>
    /\ faiss.vectors[Len(faiss.vectors)] = Normalized(vecCall.query_vector)

\* The top result is the record upserted last, at the greatest similarity.
ReturnsLastRecord ==
    /\ vecResult.faiss # <<>>
    /\ vecResult.faiss[1].id = faiss.ids[Len(faiss.ids)]
    /\ vecResult.faiss[1].score = MaxSimilarity

\* An earlier entry points the same way as the last one, and has another id
\* or a namespace the configured filter drops.
EarlierTwin ==
    \E i \in 1..(Len(faiss.ids) - 1) :
        /\ faiss.vectors[i] = faiss.vectors[Len(faiss.vectors)]
        /\ \/ faiss.ids[i] # faiss.ids[Len(faiss.ids)]
           \/ ~PassesFilter(vecCall.namespaces, Str(faiss.meta[i][2]))

\* C15 as stated: for every record and every prior index state, querying
\* with the vector of the record just upserted, top_k = 1, returns that
\* record's id at the metric's maximum.
C15_RoundTrip == IsRoundTrip => ReturnsLastRecord

\* C15, amended: the round trip holds when the record's vector is not the
\* zero vector, its namespace passes the configured namespace filter, and
\* every earlier entry of the same direction has the record's id and a
\* namespace that passes the filter too.
C15_RoundTripOfDistinctRecord ==
    ( /\ IsRoundTrip
      /\ Norm(vecCall.query_vector) # 0
      /\ PassesFilter(vecCall.namespaces, Str(faiss.meta[Len(faiss.meta)][2]))
      /\ ~EarlierTwin )
        => ReturnsLastRecord

\* C15 witness: the index already held a record of another id and another
\* direction; the record upserted after it came back first, at the maximum.
C15_Witness ==
    /\ IsRoundTrip
    /\ Len(faiss.ids) = 2
    /\ faiss.ids[1] # faiss.ids[2]
    /\ faiss.vectors[1] \notin {faiss.vectors[2], <<0, 0>>}
    /\ ~EarlierTwin
    /\ vecCall.namespaces = <<>>
    /\ ReturnsLastRecord

\* What a caller sees of a result list: the ids and their namespaces, in
\* rank order.
IdsAndNamespaces(results) ==
    [i \in 1..Len(results) |-> <<results[i].id, results[i].namespace>>]

\* C16: after the same upsert calls, a query returns the same ids with the
\* same namespaces from the FAISS backend and from the OpenSearch backend.
C16_BackendsInterchangeable ==
    vecCall.op = "query_vectors"
        => IdsAndNamespaces(vecResult.faiss) = IdsAndNamespaces(vecResult.opensearch)

\* C16, the part that holds: when every record upserted came with a
\* namespace and no id was upserted twice, the two backends return the same
\* ids with the same namespaces.
C16_SameOnNamespacedDistinctRecords ==
    ( /\ vecCall.op = "query_vectors"
      /\ \A i \in 1..Len(faiss.ids) : faiss.meta[i][2] # ""
      /\ \A i, j \in 1..Len(faiss.ids) : faiss.ids[i] = faiss.ids[j] => i = j )
        => IdsAndNamespaces(vecResult.faiss) = IdsAndNamespaces(vecResult.opensearch)

(***************************************************************************)
(* Properties of the Streamlit app (SpecApp).                              *)
(***************************************************************************)
\* C17: the context build_context_from_graph returns is the one a second
\* application to the same lists returns; its parts are the entities
\* header, one entry per node in the order of the node list, the
\* relationships header, and one entry per edge in the order of the edge
\* list.
C17_ContextDeterministicAndOrdered ==
    appCall.op = "build_context_from_graph" =>
        LET nodes == appCall.nodes
            edges == appCall.edges
            parts == appResult.value.parts
            n     == Len(nodes)
        IN  /\ appResult.exc = "none"
            /\ appResult.value.text = build_context_from_graph(nodes, edges).text
            /\ appResult.value.text = Join("\n", parts)
            /\ Len(parts) = n + Len(edges) + 2
            /\ parts[1] = EntitiesHeader
            /\ parts[n + 2] = RelationshipsHeader
            /\ \A i \in 1..n :
                   /\ parts[1 + i][2] = nodes[i].name
                   /\ parts[1 + i][4] = nodes[i].type
            /\ \A j \in 1..Len(edges) :
                   /\ parts[n + 2 + j][2] = edges[j].source
                   /\ parts[n + 2 + j][4] = edges[j].relation
                   /\ parts[n + 2 + j][6] = edges[j].target

\* C17 witness: two nodes and two edges, neither list in alphabetical
\* order, one edge given twice.
C17_Witness ==
    /\ appCall.op = "build_context_from_graph"
    /\ Len(appCall.nodes) = 2
    /\ appCall.nodes[1].name = "Lung cancer"
    /\ appCall.nodes[2].name = "EGFR"
    /\ Len(appCall.edges) = 2
    /\ appCall.edges[1] = appCall.edges[2]
    /\ Len(appResult.value.parts) = 6

(***************************************************************************)
(* More properties of the vector stores (SpecVector).                      *)
(***************************************************************************)
\* The step is a call of upsert_vectors.
IsUpsertStep == vecCall.op = "none" /\ vecCall'.op = "upsert_vectors"

\* The ids of the documents of the call, in order.
UpsertedIds == [i \in 1..Len(vecCall'.documents) |-> vecCall'.documents[i].id]

\* C23, the FAISS backend: an upsert leaves every entry where it was and
\* adds one entry per document of the call after them, in call order, an id
\* already present included.
C23_FaissAppendOnly ==
    [][IsUpsertStep =>
          /\ faiss'.ids = faiss.ids \o UpsertedIds
          /\ SubSeq(faiss'.vectors, 1, Len(faiss.vectors)) = faiss.vectors
          /\ SubSeq(faiss'.meta, 1, Len(faiss.meta)) = faiss.meta
          /\ Len(faiss'.vectors) = Len(faiss'.ids)
          /\ Len(faiss'.meta) = Len(faiss'.ids)]_vars

\* C23: on both backends an upsert leaves every entry where it was and
\* adds one entry per document of the call after them, in call order, an id
\* already present included.
C23_AppendOnly ==
    [][IsUpsertStep =>
          /\ faiss'.ids = faiss.ids \o UpsertedIds
          /\ [i \in 1..Len(opensearch') |-> opensearch'[i].id]
                 = [i \in 1..Len(opensearch) |-> opensearch[i].id] \o UpsertedIds
          /\ SubSeq(opensearch', 1, Len(opensearch)) = opensearch]_vars

\* The namespaces of a result list.
Namespaces(results) == {results[i].namespace : i \in 1..Len(results)}

\* C24: with a namespace filter configured, every result of query_vectors,
\* from either backend, has a namespace of the filter, and the FAISS result
\* is the list of the top_k nearest entries with the others taken out; with
\* no filter configured, the FAISS result is that list whole.
C24_FilterAfterSearch ==
    vecCall.op = "query_vectors" =>
        LET candidates == query_faiss(faiss, vecCall.query_vector, vecCall.top_k, <<>>)
            allowed    == ToSet(vecCall.namespaces)
        IN  /\ Len(candidates) = Min2(vecCall.top_k, Len(faiss.ids))
            /\ vecCall.namespaces # <<>>
                   => /\ Namespaces(vecResult.faiss) \subseteq allowed
                      /\ Namespaces(vecResult.opensearch) \subseteq allowed
                      /\ vecResult.faiss
                             = SelectSeq(candidates, LAMBDA c : c.namespace \in allowed)
            /\ vecCall.namespaces = <<>> => vecResult.faiss = candidates

\* C24 witness: the index holds an entry of the filter's namespace, but the
\* nearest entry is of another one, and with top_k = 1 nothing is returned.
C24_Witness ==
    /\ vecCall.op = "query_vectors"
    /\ vecCall.namespaces = <<"pubmedkg">>
    /\ vecCall.top_k = 1
    /\ Len(faiss.ids) = 2
    /\ faiss.meta[1][2] = ""
    /\ faiss.meta[2][2] = "pubmedkg"
    /\ faiss.vectors[1] # faiss.vectors[2]
    /\ vecResult.faiss = <<>>
    /\ vecResult.opensearch = <<>>

(***************************************************************************)
(* More properties of the live backend (SpecFetch).                        *)
(***************************************************************************)
\* C25: the graph build_realtime_graph returns holds at most max_nodes
\* nodes, genes, publications and inferred diseases together.
C25_AtMostMaxNodes ==
    (IsBuildRealtimeGraph /\ apiResult.exc = "none")
        => Len(apiResult.nodes) <= apiCall.max_nodes

\* C25, the part that holds: the publication search is asked for no more
\* than what max_nodes leaves after the genes, and for no more than ten.
C25_PublicationSearchIsCapped ==
    LET genes == Len(GeneNodes(apiCall.query, apiCall.geneAnswers))
    IN  (IsBuildRealtimeGraph /\ genes <= apiCall.max_nodes)
            => Len(search_publications(apiCall.pubAnswer[1], apiCall.pubAnswer[2]).value)
                   <= Min2(10, apiCall.max_nodes - genes)

\* C29: in the graph build_realtime_graph returns, every edge has its
\* source and its target among the ids of the returned nodes.
C29_EdgesJoinReturnedNodes ==
    (IsBuildRealtimeGraph /\ apiResult.exc = "none")
        => \A i \in 1..Len(apiResult.edges) :
               /\ apiResult.edges[i].source \in Ids(apiResult.nodes)
               /\ apiResult.edges[i].target \in Ids(apiResult.nodes)

\* C29, the part that holds: the disease an ASSOCIATED_WITH edge points to
\* and the publication a MENTIONS edge starts from are returned nodes.
C29_DiseasesAndPublicationsAreNodes ==
    (IsBuildRealtimeGraph /\ apiResult.exc = "none")
        => \A i \in 1..Len(apiResult.edges) :
               /\ apiResult.edges[i].relation = "ASSOCIATED_WITH"
                      => apiResult.edges[i].target \in Ids(apiResult.nodes)
               /\ apiResult.edges[i].relation = "MENTIONS"
                      => apiResult.edges[i].source \in Ids(apiResult.nodes)

IsQueryRealtimeVectors == apiCall.op = "query_realtime_vectors" /\ apiResult.exc = "none"

\* C30: query_realtime_vectors returns at most top_k seeds, in
\* non-increasing order of score, every publication seed scored strictly
\* lower than every gene seed.
C30_SeedsRankedGenesFirst ==
    IsQueryRealtimeVectors =>
        LET seeds == apiResult.value
        IN  /\ Len(seeds) <= apiCall.top_k
            /\ \A i, j \in 1..Len(seeds) : i < j => seeds[i].score >= seeds[j].score
            /\ \A i, j \in 1..Len(seeds) :
                   (seeds[i].type = "Gene" /\ seeds[j].type = "Publication")
                       => seeds[j].score < seeds[i].score

\* C30, the part that holds: at most top_k seeds are returned, the gene
\* seeds before the publication seeds, and the scores fall within each kind.
C30_SeedsCappedAndRankedByKind ==
    IsQueryRealtimeVectors =>
        LET seeds == apiResult.value
        IN  /\ Len(seeds) <= apiCall.top_k
            /\ \A i, j \in 1..Len(seeds) :
                   (i < j /\ seeds[i].type = seeds[j].type) => seeds[i].score > seeds[j].score
            /\ \A i, j \in 1..Len(seeds) :
                   (seeds[i].type = "Gene" /\ seeds[j].type = "Publication") => i < j

(***************************************************************************)
(* Properties of the live entry point (SpecRealtime).                      *)
(***************************************************************************)
IsExpandSubgraphRealtime == apiCall.op = "expand_subgraph_realtime"

\* C26: what expand_subgraph_realtime returns is what a call with the same
\* configuration and the same API responses returns that is given the first
\* seed id alone and the default hops and max_degree.
C26_OnlyFirstSeedMatters ==
    IsExpandSubgraphRealtime =>
        apiResult = expand_subgraph_realtime(apiCall.config_path,
                                             SliceTo(apiCall.seed_ids, 1), 2, 10,
                                             apiCall.geneAnswers, apiCall.pubAnswer,
                                             apiCall.assocAnswers)

\* C26 witness: a call with a second seed id, hops = 1 and max_degree = 1
\* that returned nodes and edges.
C26_Witness ==
    /\ IsExpandSubgraphRealtime
    /\ Len(apiCall.seed_ids) = 2
    /\ apiCall.seed_ids[1] # apiCall.seed_ids[2]
    /\ apiCall.hops = 1
    /\ apiCall.max_degree = 1
    /\ apiResult.exc = "none"
    /\ Len(apiResult.nodes) >= 2
    /\ apiResult.rels # <<>>

(***************************************************************************)
(* Properties of the rate gate over both backends (SpecGate).              *)
(***************************************************************************)
\* A request goes out in this step.
RequestSent == Len(requestLog') = Len(requestLog) + 1

\* The caller t has just completed _rate_limit's wait and sends the request.
GatePassedBy(t) == pc[t] = "stamp" /\ pc'[t] = "idle"

\* C21: every request that goes out is sent by a caller that has just
\* completed the rate-limit wait, whether it comes from the fetcher or from
\* the standalone backend.
C21_EveryRequestPassesTheGate ==
    [][RequestSent => \E t \in Threads : GatePassedBy(t)]_vars

(***************************************************************************)
(* Properties of the FAISS files under concurrent calls (SpecFaissRace).   *)
(***************************************************************************)
\* C22: what a query has loaded while upserts run has as many vectors as it
\* has ids and metadata rows.
C22_LoadedStoreIsOneSnapshot ==
    loader.pc = "search" =>
        /\ Len(loader.store.vectors) = Len(loader.store.ids)
        /\ Len(loader.store.vectors) = Len(loader.store.meta)

(***************************************************************************)
(* Properties of the local vector store's loader (SpecVs, SpecVsFair).     *)
(***************************************************************************)
IsLoad(t) == vs[t].fn = "load"

\* A finished call of load_local_vector_store returned a pair or raised.
LoadEnded(t) ==
    /\ vs[t].pc = "done"
    /\ \/ vs[t].exc = "RecursionError"
       \/ vs[t].exc = "none" /\ vs[t].index # NoneObj /\ vs[t].metadata # NoneObj

\* C27: every call of load_local_vector_store ends, whatever the files are:
\* it returns an index and a metadata list, or it raises; and it never holds
\* more frames than the interpreter allows.
C27_LoadTerminates ==
    /\ \A t \in Threads : [](IsLoad(t) => <>LoadEnded(t))
    /\ \A t \in Threads : [](vs[t].depth <= RecursionLimit)

\* C27 witness: a call that found no index files and no usable sample graph
\* has ended with RecursionError at the deepest frame.
C27_Witness ==
    \E t \in Threads :
        /\ IsLoad(t)
        /\ vs[t].pc = "done"
        /\ vs[t].exc = "RecursionError"
        /\ vs[t].depth = RecursionLimit
        /\ ~graphFile.exists \/ graphFile.nodes = <<>>
        /\ localFiles.index = NoneObj \/ localFiles.metadata = NoneObj

\* What a finished call of load_local_vector_store returned.
LoadReturned(t) == IsLoad(t) /\ vs[t].pc = "done" /\ vs[t].exc = "none"

\* C28: when both caches are set, the metadata list has one entry per vector
\* of the cached index, and so has every pair a caller was returned.
C28_CachesFromOneInitialization ==
    /\ INDEX_CACHE # NoneObj /\ METADATA_CACHE # NoneObj => INDEX_CACHE.n = METADATA_CACHE.n
    /\ \A t \in Threads : LoadReturned(t) => vs[t].index.n = vs[t].metadata.n
====
